---- MODULE Spec2Model ----
(***************************************************************************)
(* A model of jutsu_scraper: the catalog page parser (parser.py, utils.py, *)
(* models/), the Rating model (models/rating.py), the video URL extractor  *)
(* (video_extractor.py), the info block of a catalog page (genres, themes, *)
(* years), the batch download, one download_episode call and login         *)
(* (client.py), one transfer of a video file (downloader.py) and           *)
(* clean_description (utils.py).                                           *)
(*                                                                         *)
(* A catalog page is modelled as the sequence, in document order, of the   *)
(* elements the parser selects: h2.the-anime-season headings and episode   *)
(* links (a[href] matching /episode-N.html).  All of them are siblings;    *)
(* page.watch says whether they sit inside div.watch_l.  A text is a       *)
(* sequence of whitespace-separated tokens: words and numbers (digit runs).*)
(***************************************************************************)
EXTENDS Integers, Sequences, FiniteSets, TLC

VARIABLES
    page,         \* parser: the markup handed to parse_anime_html
    phase,        \* parser: the position in the call, "new" ... "parsed"
    classified,   \* parser: season_headers and arc_headers_candidates
    seasons_dict, \* parser: season number -> [episodes, arcs]
    seasons_info, \* parser: season number -> [title, header]
    arcs_info,    \* parser: the arc_info dicts
    episodes,     \* parser: the flat list being filled
    seasons,      \* parser: the list of Season objects
    link_i,       \* parser: the index of the next link of all_episode_links
    anime,        \* parser: the outcome of parse_anime_html(page)
    rargs,      \* rating: the arguments of Rating(...)
    rating,     \* rating: the outcome of the construction
    rphase,     \* rating: "new" | "built"
    vpage,      \* video: the episode page handed to extract_video_urls
    vurls,      \* video: the video_urls dict being filled
    vpc,        \* video: 1..3, the next probe of `methods`; 4, the final test; 5, returned
    vraised,    \* video: the probes that raised an exception
    vout,       \* video: the outcome of extract_video_urls
    dbatch,     \* download: the episodes handed to _download_episodes_list
    ddir,       \* download: output_dir, "" for None
    didx,       \* download: idx of the loop, from 1
    dfiles,     \* download: file path -> idx of the episode whose video it holds
    dlog,       \* download: downloaded_files, each with the idx that wrote it
    dphase,     \* download: "loop" | "returned" | "raised"
    dtried,     \* download: the turns of the loop so far, [idx, outcome]
    iblock,     \* info: the block, [present, children]
    isections,  \* info: sections, the block split at its <br> tags
    isec,       \* info: the index of the next section of the running loop
    genres,     \* info: the genres list being filled
    themes,     \* info: the themes list being filled
    years,      \* info: the years list being filled
    iphase,     \* info: "new", "genres", "years", "fallen", "done"
    iout,       \* info: the genres, themes, years and year of the Anime
    tin,      \* transfer: the response and the environment of one download call
    tpc,      \* transfer: the position in VideoDownloader.download
    ti,       \* transfer: the index of the next chunk of iter_content
    twritten, \* transfer: the number of chunks written
    tfile,    \* transfer: what stands at output_path
    tremove,  \* transfer: whether os.remove was tried, and how it ended
    tout,     \* transfer: how the call ended, [kind, at]
    ehtml,    \* episode: what _get_html returns for the episode page
    equality, \* episode: the quality argument of download_episode
    epath,    \* episode: the output_path argument, NoPath for None
    epc,      \* episode: the position in download_episode
    eurls,    \* episode: video_urls, the outcome of get_video_urls
    echosen,  \* episode: the chosen quality, its URL and the output path
    efiles,   \* episode: file path -> the URL whose content the file holds
    eout,     \* episode: how the call ended, [kind, at]
    is_authenticated, \* login: JutsuClient.is_authenticated
    lanswer,          \* login: the site's answer to the most recent login call
    lresults,         \* login: how each login call so far ended
    description,      \* clean: the argument of clean_description
    cpc,              \* clean: "idle", "new", "cleaned", "recleaned"
    cleaned,          \* clean: clean_description(description)
    recleaned         \* clean: clean_description(cleaned)

vars == <<page, phase, classified, seasons_dict, seasons_info, arcs_info,
          episodes, seasons, link_i, anime, rargs, rating, rphase, vpage, vurls, vpc,
          vraised, vout, dbatch, ddir, didx, dfiles, dlog, dphase, dtried,
          iblock, isections, isec, genres, themes, years, iphase, iout,
          tin, tpc, ti, twritten, tfile, tremove, tout,
          ehtml, equality, epath, epc, eurls, echosen, efiles, eout,
          is_authenticated, lanswer, lresults,
          description, cpc, cleaned, recleaned>>

transferVars == <<tin, tpc, ti, twritten, tfile, tremove, tout>>

episodeVars == <<ehtml, equality, epath, epc, eurls, echosen, efiles, eout>>

loginVars == <<is_authenticated, lanswer, lresults>>

cleanVars == <<description, cpc, cleaned, recleaned>>

infoVars == <<iblock, isections, isec, genres, themes, years, iphase, iout>>

downloadVars == <<dbatch, ddir, didx, dfiles, dlog, dphase, dtried>>

parserVars == <<page, phase, classified, seasons_dict, seasons_info, arcs_info,
                episodes, seasons, link_i, anime>>
ratingVars == <<rargs, rating, rphase>>
videoVars == <<vpage, vurls, vpc, vraised, vout>>

----------------------------------------------------------------------------
(* Generic helpers *)

\* Python None for the optional integers of the model
None == -1

Range(s) == {s[i] : i \in 1..Len(s)}

MaxOf(S) == CHOOSE m \in S : \A x \in S : x <= m

SeqsUpTo(S, n) == UNION {[1..k -> S] : k \in 0..n}

\* list.index(x) + 1, or 0 when x is not in the list
IndexOf(s, x) ==
    IF \E i \in 1..Len(s) : s[i] = x
    THEN CHOOSE i \in 1..Len(s) : s[i] = x /\ \A j \in 1..(i - 1) : s[j] # x
    ELSE 0

\* list.sort(key=...): a stable sort; key is a function on the elements of s
\* (a lexicographic key (a, b) is encoded as one integer by its caller)
RECURSIVE InsertSorted(_, _, _)
InsertSorted(s, x, key) ==
    IF s = <<>> THEN <<x>>
    ELSE IF key[x] <= key[Head(s)] THEN <<x>> \o s
    ELSE <<Head(s)>> \o InsertSorted(Tail(s), x, key)

RECURSIVE StableSort(_, _)
StableSort(s, key) ==
    IF s = <<>> THEN <<>>
    ELSE LET n == Len(s)
             rest == StableSort(SubSeq(s, 2, n), key)
         IN  InsertSorted(rest, s[1], key)

----------------------------------------------------------------------------
(* Texts: sequences of tokens.  Cyrillic words are written in Latin       *)
(* letters: "sezon" is the word of REGEX_SEASON_NUMBER, "chast" the word of *)
(* REGEX_PART_HEADER.                                                      *)

W(s) == [w |-> s, n |-> 0]
N(k) == [w |-> "#", n |-> k]
IsNum(t) == t.w = "#"

MIN_SEASON_NUMBER == 1
MAX_SEASON_NUMBER == 20

\* str.lower() on the words of the model
Lower(t) ==
    IF t.w = "Chast" THEN W("chast")
    ELSE IF t.w = "Part" THEN W("part")
    ELSE IF t.w = "Season" THEN W("season")
    ELSE t

LowerText(text) == [i \in 1..Len(text) |-> Lower(text[i])]

\* re.findall(r'\d+', text) is non-empty
HasNumbers(text) == \E i \in 1..Len(text) : IsNum(text[i])

\* utils.is_part_header
is_part_header(header_text, header_title) ==
    LET header_combined == LowerText(header_text \o header_title)
        title_lower == LowerText(header_title)
    IN  \/ \E i \in 1..(Len(header_combined) - 1) :
              /\ header_combined[i].w \in {"chast", "part"}
              /\ IsNum(header_combined[i + 1])
        \/ \E i \in 1..Len(header_combined) : header_combined[i].w = "chast"
        \/ /\ header_title # <<>>
           /\ \E i \in 1..Len(title_lower) : title_lower[i].w = "part"
           /\ ~ \E i \in 1..Len(title_lower) : title_lower[i].w = "season"

\* the four entries of `patterns` in extract_season_number: does pattern p
\* match the text at token i (group 1 is the number it captures)
PatternAt(p, text, i) ==
    CASE p = 1 -> /\ i + 1 <= Len(text)
                  /\ IsNum(text[i]) /\ text[i + 1].w = "sezon"
      [] p = 2 -> /\ i + 3 <= Len(text)
                  /\ text[i].w = "(" /\ IsNum(text[i + 1])
                  /\ text[i + 2].w = "sezon" /\ text[i + 3].w = ")"
      [] p = 3 -> /\ i + 1 <= Len(text)
                  /\ text[i].w = "(" /\ IsNum(text[i + 1])
      [] p = 4 -> i = 1 /\ Len(text) >= 1 /\ IsNum(text[1])

PatternGroup(p, text, i) == IF p \in {1, 4} THEN text[i].n ELSE text[i + 1].n

\* re.search(pattern, text): the leftmost match, 0 when there is none
PatternSearch(p, text) ==
    IF \E i \in 1..Len(text) : PatternAt(p, text, i)
    THEN CHOOSE i \in 1..Len(text) :
             PatternAt(p, text, i) /\ \A j \in 1..(i - 1) : ~PatternAt(p, text, j)
    ELSE 0

InSeasonRange(num) == MIN_SEASON_NUMBER <= num /\ num <= MAX_SEASON_NUMBER

RECURSIVE SeasonFromPatterns(_, _)
SeasonFromPatterns(p, text) ==
    IF p > 4 THEN None
    ELSE LET i == PatternSearch(p, text)
         IN  IF i # 0 /\ InSeasonRange(PatternGroup(p, text, i))
             THEN PatternGroup(p, text, i)
             ELSE SeasonFromPatterns(p + 1, text)

\* utils.extract_season_number
extract_season_number(text) ==
    LET byPattern == SeasonFromPatterns(1, text)
        inRange == {i \in 1..Len(text) : IsNum(text[i]) /\ InSeasonRange(text[i].n)}
    IN  IF byPattern # None THEN byPattern
        ELSE IF inRange # {}
             THEN text[CHOOSE i \in inRange : \A j \in inRange : i <= j].n
             ELSE None

----------------------------------------------------------------------------
(* Catalog pages *)

BASE_URL == "https://jut.su"

\* <h2 class="the-anime-season [need_bold_season]" title=...>text</h2>
Header(text, title, bold) ==
    [kind |-> "h2", text |-> text, title |-> title, bold |-> bold]

\* <a href="...[/season-S]/episode-N.html"><i>..</i>title</a>; season is
\* None when the href has no /season-S/ segment.  form is how the href
\* starts: "rooted" /slug/..., "absolute" https://jut.su/slug/...,
\* "relative" slug/..., "httpname" httpdocs/... (a relative path whose first
\* segment begins with the letters http)
HrefLink(form, season, ep, title) ==
    [kind |-> "a", form |-> form, season |-> season, ep |-> ep, title |-> title]

Link(season, ep, title) == HrefLink("rooted", season, ep, title)

IsHeader(node) == node.kind = "h2"
IsLink(node) == node.kind = "a"

\* indices, from i on, of the nodes of the given kind, in document order
IndicesFrom(nodes, i, kind) ==
    LET Wanted(j) == j >= i /\ nodes[j].kind = kind
    IN  SelectSeq([j \in 1..Len(nodes) |-> j], Wanted)

\* soup.select(SELECTOR_SEASON_HEADERS)
SelectHeaders(nodes) == IndicesFrom(nodes, 1, "h2")

\* find_all('a', href=re.compile(REGEX_EPISODE_URL))
FindAllEpisodeLinks(nodes) == IndicesFrom(nodes, 1, "a")

\* header.find_next('a', href=re.compile(REGEX_EPISODE_URL)): the index of
\* the first episode link after position i, 0 when there is none
FindNextEpisodeLink(nodes, i) ==
    LET after == {j \in (i + 1)..Len(nodes) : IsLink(nodes[j])}
    IN  IF after = {} THEN 0 ELSE CHOOSE j \in after : \A k \in after : j <= k

\* header.find_next_sibling('h2', class_='the-anime-season')
FindNextSiblingHeader(nodes, i) ==
    LET after == {j \in (i + 1)..Len(nodes) : IsHeader(nodes[j])}
    IN  IF after = {} THEN 0 ELSE CHOOSE j \in after : \A k \in after : j <= k

FIND_ALL_NEXT_LIMIT == 100
FIND_ALL_PREVIOUS_LIMIT == 50

\* header.find_all_next(limit=100): the next elements, as the values the
\* `in` operator compares (bs4 compares tags by name, attributes, contents)
FindAllNext(nodes, i) ==
    {nodes[j] : j \in {k \in (i + 1)..Len(nodes) : k - i <= FIND_ALL_NEXT_LIMIT}}

\* link.find_all_previous('h2', class_='the-anime-season', limit=50): the
\* headers before position i, nearest first
PrevHeadersFrom(nodes, i, left) ==
    LET IsHeaderAt(j) == IsHeader(nodes[j])
        before == SelectSeq([j \in 1..i |-> j], IsHeaderAt)
        taken == IF Len(before) < left THEN Len(before) ELSE left
    IN  [k \in 1..taken |-> nodes[before[Len(before) - k + 1]]]

FindAllPreviousHeaders(nodes, i) ==
    PrevHeadersFrom(nodes, i - 1, FIND_ALL_PREVIOUS_LIMIT)

----------------------------------------------------------------------------
(* AnimeParser._classify_headers *)

\* the positional heuristic of the else branch (parser.py 345-363)
SeasonByPosition(nodes, i) ==
    LET next_ep == FindNextEpisodeLink(nodes, i)
        next_header == FindNextSiblingHeader(nodes, i)
    IN  /\ HasNumbers(nodes[i].text)
        /\ next_ep # 0
        /\ \/ next_header = 0
           \/ \* the loop over all_between stops at once at next_header, its
              \* first element, so ep_before_next_header stays True
              nodes[next_ep] \in FindAllNext(nodes, i)

\* IsSeasonHeader without the is_part_header rule
IsSeasonHeader_NoPartRule(nodes, i) ==
    \/ nodes[i].bold
    \/ SeasonByPosition(nodes, i)

IsSeasonHeader(nodes, i) ==
    /\ ~is_part_header(nodes[i].text, nodes[i].title)
    /\ \/ nodes[i].bold
       \/ SeasonByPosition(nodes, i)

\* season_headers, arc_headers_candidates: indices in document order
classify_headers(nodes) ==
    LET headers == SelectHeaders(nodes)
        S(i) == IsSeasonHeader(nodes, i)
        A(i) == ~IsSeasonHeader(nodes, i)
    IN  [season_headers |-> SelectSeq(headers, S),
         arc_headers_candidates |-> SelectSeq(headers, A)]

----------------------------------------------------------------------------
(* AnimeParser._build_seasons_info *)

\* REGEX_SEASON_TITLE: the shortest non-empty prefix followed by "(N sezon)"
SeasonTitleMatch(text) ==
    LET at == {k \in 1..Len(text) : PatternAt(2, text, k + 1)}
    IN  IF at = {} THEN 0 ELSE CHOOSE k \in at : \A j \in at : k <= j

\* REGEX_PLAIN_SEASON
IsPlainSeason(text) == Len(text) = 2 /\ IsNum(text[1]) /\ text[2].w = "sezon"

\* REGEX_TITLE_BEFORE_NUMBER: the shortest non-empty prefix followed by
\* whitespace and a number (a number glued to "(" has no whitespace before it)
TitleBeforeNumberMatch(text) ==
    LET at == {k \in 1..(Len(text) - 1) : IsNum(text[k + 1]) /\ text[k].w # "("}
    IN  IF at = {} THEN 0 ELSE CHOOSE k \in at : \A j \in at : k <= j

\* season_title_clean (parser.py 445-456); <<>> stands for None
SeasonTitle(text, title) ==
    IF title # <<>> THEN title
    ELSE IF SeasonTitleMatch(text) # 0 THEN SubSeq(text, 1, SeasonTitleMatch(text))
    ELSE IF IsPlainSeason(text) THEN <<>>
    ELSE LET k == TitleBeforeNumberMatch(text)
         IN  IF k = 0 THEN <<>>
             ELSE IF k = 1 /\ IsNum(text[1]) THEN <<>>
             ELSE SubSeq(text, 1, k)

EmptySeasonData == [episodes |-> <<>>, arcs |-> <<>>]

\* seasons_dict and seasons_info after the loop over season_headers[1..n]:
\* functions on the season numbers found; a later header of the same number
\* overwrites the entry of an earlier one, so each entry is that of the last
\* header of its number
build_seasons_info(nodes, season_headers, n) ==
    LET NumberOf(i) == extract_season_number(nodes[season_headers[i]].text)
        found == {NumberOf(i) : i \in 1..n} \ {None}
        LastOf(k) == CHOOSE i \in 1..n :
                        /\ NumberOf(i) = k
                        /\ \A j \in (i + 1)..n : NumberOf(j) # k
    IN  [dict |-> [k \in found |-> EmptySeasonData],
         info |-> [k \in found |->
                     [title |-> SeasonTitle(nodes[season_headers[LastOf(k)]].text,
                                            nodes[season_headers[LastOf(k)]].title),
                      header |-> season_headers[LastOf(k)]]]]

----------------------------------------------------------------------------
(* AnimeParser._build_arcs_info *)

\* ArcInfoOf without the test `season_num in seasons_dict`
ArcInfoOf_AnySeason(nodes, h, known) ==
    LET next_ep == FindNextEpisodeLink(nodes, h)
    IN  IF next_ep = 0 THEN <<>>
        ELSE IF nodes[next_ep].season = None THEN <<>>
        ELSE <<[header |-> h,
                name |-> nodes[h].text,
                title |-> nodes[h].title,
                season |-> nodes[next_ep].season]>>

\* the arc_info dict of one arc header, or <<>> when the header is discarded
ArcInfoOf(nodes, h, known) ==
    LET next_ep == FindNextEpisodeLink(nodes, h)
    IN  IF next_ep = 0 THEN <<>>
        ELSE IF nodes[next_ep].season = None THEN <<>>
        ELSE IF nodes[next_ep].season \notin known THEN <<>>
        ELSE <<[header |-> h,
                name |-> nodes[h].text,
                title |-> nodes[h].title,
                season |-> nodes[next_ep].season]>>

RECURSIVE build_arcs_info(_, _, _, _)
build_arcs_info(nodes, arc_headers, known, n) ==
    IF n = 0 THEN <<>>
    ELSE build_arcs_info(nodes, arc_headers, known, n - 1)
            \o ArcInfoOf(nodes, arc_headers[n], known)

----------------------------------------------------------------------------
(* Episode, and AnimeParser._parse_episode_link *)

\* utils.normalize_url: the three cases of the match statement.  The result
\* is the string base \o sep \o href
normalize_url(href, base_url) ==
    IF href.form = "rooted"                            \* url.startswith('/')
    THEN [base |-> base_url, sep |-> "", href |-> href]
    ELSE IF href.form \in {"absolute", "httpname"}     \* url.startswith('http')
    THEN [base |-> "", sep |-> "", href |-> href]
    ELSE [base |-> base_url, sep |-> "/", href |-> href]

\* models/episode.py: the field constraints of Episode
EpisodeValid(number, title, url, season_number) ==
    /\ number > 0
    /\ title # ""
    /\ url.base # "" \/ url.href.form # ""
    /\ season_number = None \/ season_number > 0

\* Episode(...); id is the identity of the object (the position of the link
\* it was parsed from), which Python's == on episodes does not compare
Episode(number, title, url, season_number, id) ==
    [number |-> number, title |-> title, url |-> url,
     season_number |-> season_number, id |-> id]

\* Python's == between two Episode objects
EpisodeEq(a, b) ==
    /\ a.number = b.number /\ a.title = b.title
    /\ a.url = b.url /\ a.season_number = b.season_number

\* ResolveSeason without the test `season_num not in seasons_dict`
ResolveSeason_KeepsUnknown(url_season, known) ==
    IF known = {} THEN [drop |-> FALSE, season |-> url_season]
    ELSE IF url_season = None
         THEN IF Cardinality(known) = 1
              THEN [drop |-> FALSE, season |-> CHOOSE k \in known : TRUE]
              ELSE [drop |-> TRUE, season |-> None]
         ELSE [drop |-> FALSE, season |-> url_season]

\* ResolveSeason where a link without a season segment is given to the
\* first known season, however many are known
ResolveSeason_FirstSeason(url_season, known) ==
    IF known = {} THEN [drop |-> FALSE, season |-> url_season]
    ELSE IF url_season = None
         THEN [drop |-> FALSE, season |-> CHOOSE k \in known : \A j \in known : k <= j]
         ELSE IF url_season \notin known
              THEN [drop |-> TRUE, season |-> None]
              ELSE [drop |-> FALSE, season |-> url_season]

\* the season the link resolves to (parser.py 503-514), or "drop"
ResolveSeason(url_season, known) ==
    IF known = {} THEN [drop |-> FALSE, season |-> url_season]
    ELSE IF url_season = None
         THEN IF Cardinality(known) = 1
              THEN [drop |-> FALSE, season |-> CHOOSE k \in known : TRUE]
              ELSE [drop |-> TRUE, season |-> None]
         ELSE IF url_season \notin known
              THEN [drop |-> TRUE, season |-> None]
              ELSE [drop |-> FALSE, season |-> url_season]

\* <<episode>>, or <<>> for None; known is the key set of seasons_dict
parse_episode_link(nodes, l, known) ==
    LET link == nodes[l]
        resolved == ResolveSeason(link.season, known)
        href == [form |-> link.form, season |-> link.season, ep |-> link.ep]
        ep_url == normalize_url(href, BASE_URL)
    IN  IF resolved.drop THEN <<>>
        ELSE IF ~EpisodeValid(link.ep, link.title, ep_url, resolved.season)
             THEN <<>>    \* ValidationError is a ValueError: caught, None
             ELSE <<Episode(link.ep, link.title, ep_url, resolved.season, l)>>

----------------------------------------------------------------------------
(* AnimeParser._assign_episode_to_arc *)

\* arc_info dicts compare by value, their header tags included
ArcInfoEq(nodes, a, b) ==
    /\ nodes[a.header] = nodes[b.header]
    /\ a.name = b.name /\ a.title = b.title /\ a.season = b.season

\* is this arc_info accepted by the loop body (parser.py 563-578)
ArcAccepted(nodes, arc_info, season_arcs, prev_headers) ==
    LET arc_pos == IndexOf(prev_headers, nodes[arc_info.header])
    IN  /\ arc_pos # 0
        /\ ~ \E k \in 1..Len(season_arcs) :
               LET other == season_arcs[k]
                   other_pos == IndexOf(prev_headers, nodes[other.header])
               IN  /\ ~ArcInfoEq(nodes, other, arc_info)
                   /\ other_pos # 0
                   /\ other_pos < arc_pos

\* current_arc_info: <<arc_info>>, or <<>> for None
CurrentArcInfo(nodes, l, infos, season_num) ==
    LET InSeason(ai) == ai.season = season_num
        season_arcs == SelectSeq(infos, InSeason)
        prev_headers == FindAllPreviousHeaders(nodes, l)
        ok == {k \in 1..Len(season_arcs) :
                  ArcAccepted(nodes, season_arcs[k], season_arcs, prev_headers)}
    IN  IF ok = {} THEN <<>>
        ELSE \* reversed(season_arcs): the last accepted one is met first
             <<season_arcs[CHOOSE k \in ok : \A j \in ok : j <= k]>>

\* models/arc.py: Arc(name=..., title=..., episodes=[]) needs a non-empty name
ArcValid(name) == name # <<>>

\* AddToArcs that makes the Arc of a new name and appends no episode to it
AddToArcs_NewArcEmpty(arcs, arc_info, episode) ==
    LET at == {k \in 1..Len(arcs) : arcs[k].name = arc_info.name}
    IN  IF at = {}
        THEN Append(arcs, [name |-> arc_info.name, title |-> arc_info.title,
                           episodes |-> <<>>])
        ELSE [arcs EXCEPT ![CHOOSE k \in at : TRUE].episodes = Append(@, episode)]

\* AddToArcs without the test `arc_name not in ...['arcs']`
AddToArcs_AlwaysNew(arcs, arc_info, episode) ==
    Append(arcs, [name |-> arc_info.name, title |-> arc_info.title,
                  episodes |-> <<episode>>])

\* season_data['arcs'] after the assignment; arcs is the ordered dict as the
\* sequence of its values, keyed by name
AddToArcs(arcs, arc_info, episode) ==
    LET at == {k \in 1..Len(arcs) : arcs[k].name = arc_info.name}
    IN  IF at = {}
        THEN Append(arcs, [name |-> arc_info.name, title |-> arc_info.title,
                           episodes |-> <<episode>>])
        ELSE [arcs EXCEPT ![CHOOSE k \in at : TRUE].episodes = Append(@, episode)]

\* [dict, error]: seasons_dict after the call, and whether Arc(...) raised
assign_episode_to_arc(nodes, episode, l, infos, dict, season_num) ==
    LET current == CurrentArcInfo(nodes, l, infos, season_num)
    IN  IF current = <<>> THEN [dict |-> dict, error |-> FALSE]
        ELSE IF ~ArcValid(current[1].name) THEN [dict |-> dict, error |-> TRUE]
        ELSE [dict |-> [dict EXCEPT ![season_num].arcs =
                            AddToArcs(@, current[1], episode)],
              error |-> FALSE]

----------------------------------------------------------------------------
(* AnimeParser._parse_with_seasons, _parse_without_seasons *)

\* the body of the loop over all_episode_links for the link at position l
\* (parser.py 389-395): [episodes, dict, error]; error says Arc(...) raised
LinkStep(nodes, l, eps, dict, infos) ==
    LET parsed == parse_episode_link(nodes, l, DOMAIN dict)
    IN  IF parsed = <<>> THEN [episodes |-> eps, dict |-> dict, error |-> FALSE]
        ELSE IF /\ parsed[1].season_number # None
                /\ parsed[1].season_number # 0
                /\ parsed[1].season_number \in DOMAIN dict
             THEN LET assigned == assign_episode_to_arc(
                          nodes, parsed[1], l, infos,
                          [dict EXCEPT ![parsed[1].season_number].episodes =
                                           Append(@, parsed[1])],
                          parsed[1].season_number)
                  IN  [episodes |-> Append(eps, parsed[1]),
                       dict |-> assigned.dict,
                       error |-> assigned.error]
             ELSE [episodes |-> Append(eps, parsed[1]), dict |-> dict, error |-> FALSE]

\* x.number as the sort key of episode lists
NumberKey(eps) == [e \in Range(eps) |-> e.number]

SortArcs(arcs) ==
    [k \in 1..Len(arcs) |->
        [arcs[k] EXCEPT !.episodes = StableSort(@, NumberKey(@))]]

\* Season(number=..., episodes=..., arcs=..., title=...)
Season(number, eps, arcs, title) ==
    [number |-> number, episodes |-> eps, arcs |-> arcs, title |-> title]

\* SeasonsOf with the keys taken in descending order
RECURSIVE SeasonsOf_Descending(_, _, _)
SeasonsOf_Descending(dict, info, keys) ==
    IF keys = {} THEN <<>>
    ELSE LET season_num == CHOOSE k \in keys : \A j \in keys : k >= j
         IN  <<Season(season_num,
                      StableSort(dict[season_num].episodes,
                                 NumberKey(dict[season_num].episodes)),
                      SortArcs(dict[season_num].arcs),
                      info[season_num].title)>>
             \o SeasonsOf_Descending(dict, info, keys \ {season_num})

\* the Season objects of the keys of seasons_dict, taken in sorted order
\* (parser.py 397-412)
RECURSIVE SeasonsOf(_, _, _)
SeasonsOf(dict, info, keys) ==
    IF keys = {} THEN <<>>
    ELSE LET season_num == CHOOSE k \in keys : \A j \in keys : k <= j
         IN  <<Season(season_num,
                      StableSort(dict[season_num].episodes,
                                 NumberKey(dict[season_num].episodes)),
                      SortArcs(dict[season_num].arcs),
                      info[season_num].title)>>
             \o SeasonsOf(dict, info, keys \ {season_num})

\* arc_headers: the candidates that equal no season header (parser.py 385)
ArcHeaders(nodes, season_headers, arc_headers_candidates) ==
    LET NotSeason(h) == ~ \E k \in 1..Len(season_headers) :
                            nodes[season_headers[k]] = nodes[h]
    IN  SelectSeq(arc_headers_candidates, NotSeason)

\* the episodes of the first n links, parsed with an empty seasons_dict
RECURSIVE parse_without_seasons(_, _, _)
parse_without_seasons(nodes, episode_links, n) ==
    IF n = 0 THEN <<>>
    ELSE parse_without_seasons(nodes, episode_links, n - 1)
            \o parse_episode_link(nodes, episode_links[n], {})

----------------------------------------------------------------------------
(* models/rating.py *)

DEFAULT_BEST == 10
DEFAULT_WORST == 1

RatingError == [ok |-> FALSE, value |-> 0, best |-> 0, worst |-> 0, count |-> 0]

\* validate_bounds with strict comparisons
validate_bounds_Strict(value, best, worst) == worst < value /\ value < best

\* the model validator of Rating, run after the field validation
validate_bounds(value, best, worst) == worst <= value /\ value <= best

\* Rating(value=..., best=..., worst=..., count=...); best and worst are None
\* when the caller leaves them to their defaults
Rating(value, best, worst, count) ==
    LET b == IF best = None THEN DEFAULT_BEST ELSE best
        w == IF worst = None THEN DEFAULT_WORST ELSE worst
    IN  IF count < 0 THEN RatingError            \* Field(..., ge=0)
        ELSE IF ~validate_bounds(value, b, w) THEN RatingError
        ELSE [ok |-> TRUE, value |-> value, best |-> b, worst |-> w, count |-> count]

\* float(text) and int(text) of a stripped element text: the text has to be
\* one number, anything else (no text, a word, a number and a word) is a
\* ValueError
ParseNumber(text) ==
    IF Len(text) = 1 /\ IsNum(text[1])
    THEN [ok |-> TRUE, v |-> text[1].n]
    ELSE [ok |-> FALSE, v |-> 0]

\* the rating markup of a page: each of the four elements is Absent or holds
\* a text (the content attribute, for meta[itemprop='worstRating'])
Absent == [present |-> FALSE, text |-> <<>>]
Elem(text) == [present |-> TRUE, text |-> text]

NoRatingMarkup == [value |-> Absent, best |-> Absent, worst |-> Absent, count |-> Absent]

\* an optional Rating: <<>> is None, <<r>> is the Rating r
NoRating == <<>>

\* _parse_rating that builds Rating(value=0) when the value element is missing
parse_rating_ZeroDefault(markup) ==
    LET value == IF markup.value.present THEN ParseNumber(markup.value.text)
                 ELSE [ok |-> TRUE, v |-> 0]
        r == Rating(value.v, DEFAULT_BEST, 0, 0)
    IN  IF value.ok /\ r.ok THEN <<r>> ELSE NoRating

\* AnimeParser._parse_rating: NoRating for None, or <<r>> for the Rating r
parse_rating(markup) ==
    IF ~markup.value.present THEN NoRating
    ELSE
      LET value == ParseNumber(markup.value.text)
          best == IF markup.best.present THEN ParseNumber(markup.best.text)
                  ELSE [ok |-> TRUE, v |-> DEFAULT_BEST]
          \* worst_elem and worst_elem.get('content'): an empty content is falsy
          worst == IF markup.worst.present /\ markup.worst.text # <<>>
                   THEN ParseNumber(markup.worst.text)
                   ELSE [ok |-> TRUE, v |-> DEFAULT_WORST]
          count == IF markup.count.present THEN ParseNumber(markup.count.text)
                   ELSE [ok |-> TRUE, v |-> 0]
          r == Rating(value.v, best.v, worst.v, count.v)
      IN  IF ~(value.ok /\ best.ok /\ worst.ok /\ count.ok)
          THEN NoRating                          \* except ValueError
          ELSE IF r.ok THEN <<r>> ELSE NoRating  \* ValidationError is a ValueError

----------------------------------------------------------------------------
(* AnimeParser._parse_episodes_and_seasons, _parse_title, Anime *)

\* (x.season_number or 0, x.number) as one integer
FlatKey(eps) ==
    LET big == 1 + MaxOf({0} \cup {e.number : e \in Range(eps)})
        SeasonOr0(e) == IF e.season_number = None THEN 0 ELSE e.season_number
    IN  [e \in Range(eps) |-> SeasonOr0(e) * big + e.number]

EndsWith(text, suffix) ==
    /\ Len(text) >= Len(suffix)
    /\ SubSeq(text, Len(text) - Len(suffix) + 1, Len(text)) = suffix

\* re.sub(pattern, '', title) for a pattern \s+suffix$
StripSuffix(text, suffix) ==
    IF EndsWith(text, suffix) /\ Len(text) > Len(suffix)
    THEN SubSeq(text, 1, Len(text) - Len(suffix))
    ELSE text

\* _parse_title: h1 is the text of h1.header_video, <<>> when there is none
parse_title(h1) ==
    LET noPrefix == IF Len(h1) > 1 /\ h1[1] = W("Smotret") THEN Tail(h1) ELSE h1
        noSeries == IF EndsWith(noPrefix, <<W("vse"), W("serii"), W("i"), W("sezony")>>)
                    THEN StripSuffix(noPrefix, <<W("vse"), W("serii"), W("i"), W("sezony")>>)
                    ELSE StripSuffix(noPrefix, <<W("vse"), W("serii")>>)
    IN  StripSuffix(noSeries, <<W("i"), W("sezony")>>)

ValidationError ==
    [status |-> "ValidationError", title |-> <<>>, rating |-> NoRating,
     episodes |-> <<>>, seasons |-> <<>>]

\* models/anime.py: Anime(title=..., rating=..., episodes=..., seasons=...),
\* title min_length=1
Anime(title, rt, eps, seas) ==
    IF title = <<>> THEN ValidationError
    ELSE [status |-> "ok", title |-> title, rating |-> rt,
          episodes |-> eps, seasons |-> seas]

----------------------------------------------------------------------------
(* The parser's specification: one call of parse_anime_html on a page.     *)
(* phase is the position in AnimeParser._parse_episodes_and_seasons:       *)
(* "new", then "seasons" -> "links" (the branch _parse_with_seasons) or     *)
(* "flat" (the branch _parse_without_seasons), then "assemble", "parsed".  *)

MaxNodes == 3
MaxCoreNodes == 5
MaxNumbered == 2

Headers ==
    {Header(<<N(1), W("sezon")>>, <<>>, TRUE),
     Header(<<N(2), W("sezon")>>, <<>>, TRUE),
     Header(<<N(2), W("sezon")>>, <<>>, FALSE),
     Header(<<W("Filmy")>>, <<>>, TRUE),
     Header(<<W("Arka")>>, <<>>, FALSE),
     Header(<<W("chast"), N(1)>>, <<>>, FALSE),
     Header(<<W("Chast"), N(2)>>, <<>>, TRUE),
     Header(<<N(1), W("sezon")>>, <<W("Part"), N(2)>>, TRUE),
     Header(<<>>, <<>>, FALSE)}

Links ==
    {Link(None, 1, "Seriya"), Link(1, 1, "Seriya"), Link(1, 2, "Seriya"),
     Link(2, 1, "Seriya"), Link(1, 0, "Seriya"), Link(1, 1, "")}

\* the elements of the longer pages: one season, two arcs, two links
CoreNodes ==
    {Header(<<N(1), W("sezon")>>, <<>>, TRUE),
     Header(<<W("Arka")>>, <<>>, FALSE),
     Header(<<W("chast"), N(1)>>, <<>>, FALSE),
     Link(1, 1, "Seriya"), Link(1, 2, "Seriya")}

\* the elements of the pages that vary the form of the href
HrefNodes ==
    {Header(<<N(1), W("sezon")>>, <<>>, TRUE),
     HrefLink("absolute", 1, 1, "Seriya"),
     HrefLink("relative", 1, 1, "Seriya"),
     HrefLink("httpname", 1, 1, "Seriya")}

\* a season with one arc heading, then k headings of another season, then a
\* link of the first season
LongPage(k) ==
    <<Header(<<N(1), W("sezon")>>, <<>>, TRUE), Header(<<W("Arka")>>, <<>>, FALSE)>>
        \o [i \in 1..k |-> Header(<<N(2), W("sezon")>>, <<>>, TRUE)]
        \o <<Link(1, 1, "Seriya")>>

\* the arc heading is the last one that find_all_previous(limit=50) returns,
\* or the first one that it does not
LongPages ==
    {LongPage(FIND_ALL_PREVIOUS_LIMIT - 1), LongPage(FIND_ALL_PREVIOUS_LIMIT)}

\* a numbered heading without the bold marker, k headings without a number,
\* then the first link of the page
FarLinkPage(k) ==
    <<Header(<<N(2), W("sezon")>>, <<>>, FALSE)>>
        \o [i \in 1..k |-> Header(<<W("Arka")>>, <<>>, FALSE)]
        \o <<Link(2, 1, "Seriya")>>

\* the link is the last element that find_all_next(limit=100) returns, or
\* the first one that it does not
FarLinkPages ==
    {FarLinkPage(FIND_ALL_NEXT_LIMIT - 1), FarLinkPage(FIND_ALL_NEXT_LIMIT)}

H1Texts == {<<>>, <<W("Smotret"), W("Naruto"), W("vse"), W("serii")>>}

\* bold headings whose number stands in different places of the text, and
\* the links of two seasons
NumberedNodes ==
    {Header(<<W("Naruto"), W("("), N(2), W("sezon"), W(")")>>, <<>>, TRUE),
     Header(<<N(25), W("sezon"), W("("), N(3)>>, <<>>, TRUE),
     Header(<<N(3), W("Filmy")>>, <<>>, TRUE),
     Header(<<N(30), W("Filmy")>>, <<>>, TRUE),
     Header(<<W("Naruto"), N(2)>>, <<>>, TRUE),
     Header(<<W("Filmy"), N(30), N(4)>>, <<>>, FALSE),
     Header(<<N(2), W("chast")>>, <<>>, FALSE),
     Link(2, 1, "Seriya"), Link(3, 1, "Seriya")}

\* the texts of span[itemprop='ratingValue'], of the other rating elements
ValueTexts == {<<>>, <<W("n/a")>>, <<N(0)>>, <<N(5)>>, <<N(11)>>}
BestTexts == {<<N(10)>>, <<N(4)>>, <<W("ten")>>}
WorstTexts == {<<>>, <<N(1)>>, <<N(6)>>}
CountTexts == {<<N(3)>>, <<N(-1)>>, <<N(3), W("votes")>>}

ElemsOf(texts) == {Absent} \cup {Elem(t) : t \in texts}

RatingMarkups ==
    [value : ElemsOf(ValueTexts), best : ElemsOf(BestTexts),
     worst : ElemsOf(WorstTexts), count : ElemsOf(CountTexts)]

\* the pages that carry rating markup: no heading, at most one link
RatedNodes == {<<>>, <<Link(None, 1, "Seriya")>>}

\* every short page over all the elements, the longer pages over CoreNodes,
\* the short pages over HrefNodes, the long pages, the rated pages and the
\* pages of numbered headings
Pages ==
    [h1 : H1Texts, watch : BOOLEAN, nodes : SeqsUpTo(Headers \cup Links, MaxNodes),
     rating : {NoRatingMarkup}]
        \cup [h1 : {<<W("Naruto")>>}, watch : {TRUE},
              nodes : SeqsUpTo(CoreNodes, MaxCoreNodes), rating : {NoRatingMarkup}]
        \cup [h1 : {<<W("Naruto")>>}, watch : {TRUE},
              nodes : SeqsUpTo(HrefNodes, MaxNodes), rating : {NoRatingMarkup}]
        \cup [h1 : {<<W("Naruto")>>}, watch : {TRUE},
              nodes : LongPages \cup FarLinkPages, rating : {NoRatingMarkup}]
        \cup [h1 : H1Texts, watch : {TRUE}, nodes : RatedNodes,
              rating : RatingMarkups]
        \cup [h1 : {<<W("Naruto")>>}, watch : {TRUE},
              nodes : SeqsUpTo(NumberedNodes, MaxNumbered), rating : {NoRatingMarkup}]

NotParsed ==
    [status |-> "none", title |-> <<>>, rating |-> NoRating,
     episodes |-> <<>>, seasons |-> <<>>]

NoHeaders == [season_headers |-> <<>>, arc_headers_candidates |-> <<>>]

ParserLocalsInit ==
    /\ classified = NoHeaders
    /\ seasons_dict = << >>
    /\ seasons_info = << >>
    /\ arcs_info = <<>>
    /\ episodes = <<>>
    /\ seasons = <<>>
    /\ link_i = 1
    /\ anime = NotParsed

ParserInit ==
    /\ page \in Pages
    /\ phase = "new"
    /\ ParserLocalsInit

\* parser.py 304-318: classify the headers and choose the branch
Classify ==
    /\ phase = "new"
    /\ classified' = classify_headers(page.nodes)
    /\ phase' = IF Len(classified'.season_headers) > 0 /\ page.watch
                THEN "seasons" ELSE "flat"
    /\ UNCHANGED <<page, seasons_dict, seasons_info, arcs_info, episodes,
                   seasons, link_i, anime>>

\* parser.py 382-386
BuildInfo ==
    /\ phase = "seasons"
    /\ seasons_dict' = build_seasons_info(page.nodes, classified.season_headers,
                                          Len(classified.season_headers)).dict
    /\ seasons_info' = build_seasons_info(page.nodes, classified.season_headers,
                                          Len(classified.season_headers)).info
    /\ arcs_info' = build_arcs_info(
                        page.nodes,
                        ArcHeaders(page.nodes, classified.season_headers,
                                   classified.arc_headers_candidates),
                        DOMAIN seasons_dict',
                        Len(ArcHeaders(page.nodes, classified.season_headers,
                                       classified.arc_headers_candidates)))
    /\ link_i' = 1
    /\ phase' = "links"
    /\ UNCHANGED <<page, classified, episodes, seasons, anime>>

\* parser.py 388-395: one turn of the loop; an exception ends the parse
ParseLink ==
    /\ phase = "links"
    /\ link_i <= Len(FindAllEpisodeLinks(page.nodes))
    /\ LET step == LinkStep(page.nodes, FindAllEpisodeLinks(page.nodes)[link_i],
                            episodes, seasons_dict, arcs_info)
       IN  IF step.error
           THEN /\ anime' = ValidationError
                /\ phase' = "parsed"
                /\ UNCHANGED <<episodes, seasons_dict, link_i>>
           ELSE /\ episodes' = step.episodes
                /\ seasons_dict' = step.dict
                /\ link_i' = link_i + 1
                /\ UNCHANGED <<anime, phase>>
    /\ UNCHANGED <<page, classified, seasons_info, arcs_info, seasons>>

\* parser.py 397-414: the loop is over, the Season objects are built
BuildSeasons ==
    /\ phase = "links"
    /\ link_i > Len(FindAllEpisodeLinks(page.nodes))
    /\ seasons' = SeasonsOf(seasons_dict, seasons_info, DOMAIN seasons_dict)
    /\ phase' = "assemble"
    /\ UNCHANGED <<page, classified, seasons_dict, seasons_info, arcs_info,
                   episodes, link_i, anime>>

\* parser.py 416-430
ParseFlat ==
    /\ phase = "flat"
    /\ episodes' = parse_without_seasons(page.nodes, FindAllEpisodeLinks(page.nodes),
                                         Len(FindAllEpisodeLinks(page.nodes)))
    /\ phase' = "assemble"
    /\ UNCHANGED <<page, classified, seasons_dict, seasons_info, arcs_info,
                   seasons, link_i, anime>>

\* parser.py 320-324 and 69-95: the sorts, then Anime(...) with the title and
\* the rating, which parse() reads from the page before the episodes
Assemble ==
    /\ phase = "assemble"
    /\ anime' = Anime(parse_title(page.h1),
                      parse_rating(page.rating),
                      StableSort(episodes, FlatKey(episodes)),
                      seasons)
    /\ phase' = "parsed"
    /\ UNCHANGED <<page, classified, seasons_dict, seasons_info, arcs_info,
                   episodes, seasons, link_i>>

----------------------------------------------------------------------------
(* The specification of Rating: one construction *)

MaxRating == 11

RatingArgs ==
    [value : 0..MaxRating, best : {None} \cup 0..MaxRating,
     worst : {None} \cup 0..MaxRating, count : -1..1]

RatingInit ==
    /\ rargs \in RatingArgs
    /\ rating = RatingError
    /\ rphase = "new"

Construct ==
    /\ rphase = "new"
    /\ rating' = Rating(rargs.value, rargs.best, rargs.worst, rargs.count)
    /\ rphase' = "built"
    /\ UNCHANGED rargs

----------------------------------------------------------------------------
(* video_extractor.py.  Attribute values and URLs are texts: "v.720.mp4" is *)
(* <<W("v"), W("."), N(720), W("."), W("mp4")>>, and a quality key such as *)
(* "720" is <<N(720)>>.  A dict is a function on its keys.                  *)

Dot == W(".")

\* needle in s, for strings
Contains(s, needle) ==
    \E i \in 1..(Len(s) - Len(needle) + 1) :
        SubSeq(s, i, i + Len(needle) - 1) = needle

MP4 == <<Dot, W("mp4")>>
PIXEL_PNG == <<W("pixel"), Dot, W("png")>>

\* src.replace('&amp;', '&')
Unescape(url) ==
    [i \in 1..Len(url) |-> IF url[i] = W("&amp;") THEN W("&") ELSE url[i]]

\* re.search(REGEX_QUALITY_FROM_LABEL, label): group 1 of the leftmost match,
\* <<>> when there is no match
QualityFromLabel(label) ==
    LET at == {i \in 1..Len(label) : IsNum(label[i])}
    IN  IF at = {} THEN <<>>
        ELSE <<label[CHOOSE i \in at : \A j \in at : i <= j]>>

\* re.search(REGEX_QUALITY_FROM_URL, src): group 1 of the leftmost match
QualityFromUrl(src) ==
    LET at == {i \in 1..(Len(src) - 2) :
                  src[i] = Dot /\ IsNum(src[i + 1]) /\ src[i + 2] = Dot}
    IN  IF at = {} THEN <<>>
        ELSE <<src[(CHOOSE i \in at : \A j \in at : i <= j) + 1]>>

\* d[key] = value
DictSet(d, key, value) ==
    [k \in DOMAIN d \cup {key} |-> IF k = key THEN value ELSE d[k]]

\* an update that keeps the entries d already has
DictUpdate_KeepFirst(d, other) ==
    [k \in DOMAIN d \cup DOMAIN other |-> IF k \in DOMAIN d THEN d[k] ELSE other[k]]

\* d.update(other)
DictUpdate(d, other) ==
    [k \in DOMAIN d \cup DOMAIN other |-> IF k \in DOMAIN other THEN other[k] ELSE d[k]]

\* <source type="video/mp4" src=... res=... label=...>
SourceTag(src, res, label) == [src |-> src, res |-> res, label |-> label]

\* the quality of one <source> tag (video_extractor.py 36-42)
SourceQuality(source) ==
    IF source.res # <<>> THEN source.res
    ELSE IF source.label # <<>> THEN QualityFromLabel(source.label)
    ELSE <<>>

\* video_urls after the first n tags of source_tags
RECURSIVE extract_from_source_tags(_, _)
extract_from_source_tags(source_tags, n) ==
    IF n = 0 THEN << >>
    ELSE LET video_urls == extract_from_source_tags(source_tags, n - 1)
             source == source_tags[n]
             quality == SourceQuality(source)
         IN  IF source.src = <<>> \/ ~Contains(source.src, MP4) THEN video_urls
             ELSE IF quality # <<>>
                  THEN DictSet(video_urls, quality, Unescape(source.src))
                  ELSE video_urls

\* video_tags: the src of each <video class="vjs-tech">, in document order;
\* soup.find takes the first
extract_from_video_tag(video_tags) ==
    IF video_tags = <<>> THEN << >>
    ELSE LET src == video_tags[1]
         IN  IF src # <<>> /\ Contains(src, MP4) /\ ~Contains(src, PIXEL_PNG)
                /\ QualityFromUrl(src) # <<>>
             THEN DictSet(<< >>, QualityFromUrl(src), Unescape(src))
             ELSE << >>

VIDEO_QUALITIES == <<<<N(1080)>>, <<N(720)>>, <<N(480)>>, <<N(360)>>>>

\* the inner loop over VIDEO_QUALITIES[1..q] for one element; element maps
\* each quality to its data-player-<quality> attribute (<<>> when absent)
RECURSIVE PlayerQualities(_, _, _)
PlayerQualities(video_urls, element, q) ==
    IF q = 0 THEN video_urls
    ELSE LET before == PlayerQualities(video_urls, element, q - 1)
             quality == VIDEO_QUALITIES[q]
             url == element[quality]
         IN  IF url # <<>> /\ Contains(url, MP4)
             THEN DictSet(before, quality, Unescape(url))
             ELSE before

RECURSIVE extract_from_data_attributes(_, _)
extract_from_data_attributes(player_elements, n) ==
    IF n = 0 THEN << >>
    ELSE PlayerQualities(extract_from_data_attributes(player_elements, n - 1),
                         player_elements[n], Len(VIDEO_QUALITIES))

\* methods[k](soup)
Probe(k, pg) ==
    CASE k = 1 -> extract_from_source_tags(pg.sources, Len(pg.sources))
      [] k = 2 -> extract_from_video_tag(pg.videos)
      [] k = 3 -> extract_from_data_attributes(pg.players, Len(pg.players))

\* int(key) does not raise ValueError
IntParses(key) == Len(key) = 1 /\ IsNum(key[1])

\* the outcome of extract_video_urls once the loop over methods is over
\* (video_extractor.py 132-138); the f-string of the last log call sorts the
\* keys with key=int
VideoOutcome(video_urls) ==
    IF DOMAIN video_urls = {}
    THEN [kind |-> "VideoExtractionError", urls |-> << >>]
    ELSE IF \E key \in DOMAIN video_urls : ~IntParses(key)
         THEN [kind |-> "ValueError", urls |-> << >>]
         ELSE [kind |-> "ok", urls |-> video_urls]

----------------------------------------------------------------------------
(* The video extractor's specification: one call of extract_video_urls *)

MaxSources == 1
MaxPlayers == 1

Url(name, quality) == <<W(name), Dot, N(quality), Dot, W("mp4")>>

\* a URL that holds the placeholder filename and passes every other test
PixelUrl == PIXEL_PNG \o <<W("?")>> \o Url("v", 720)

SourceTags ==
    {SourceTag(Url("s", 720), <<N(720)>>, <<>>),
     SourceTag(Url("s", 1080) \o <<W("?"), W("a"), W("&amp;"), W("b")>>,
               <<>>, <<N(1080), W("p")>>),
     SourceTag(Url("s", 720), <<W("HD")>>, <<>>),
     SourceTag(Url("s", 240), <<N(240)>>, <<>>),
     SourceTag(PixelUrl, <<N(720)>>, <<>>),
     SourceTag(PIXEL_PNG, <<N(720)>>, <<>>),
     SourceTag(Url("s", 720), <<>>, <<>>)}

VideoSrcs ==
    {Url("t", 720), Url("t", 144), PixelUrl, <<W("t"), Dot, W("mp4")>>}

PlayerElement(u1080, u720) ==
    [q \in Range(VIDEO_QUALITIES) |->
        IF q = <<N(1080)>> THEN u1080 ELSE IF q = <<N(720)>> THEN u720 ELSE <<>>]

PlayerElements ==
    {PlayerElement(Url("d", 1080), Url("d", 720)),
     PlayerElement(<<>>, Url("d", 720)),
     PlayerElement(PixelUrl, <<>>),
     PlayerElement(<<>>, <<>>)}

VideoPages ==
    [sources : SeqsUpTo(SourceTags, MaxSources),
     videos : {<<>>} \cup {<<v>> : v \in VideoSrcs},
     players : SeqsUpTo(PlayerElements, MaxPlayers)]

Pending == [kind |-> "pending", urls |-> << >>]

VideoInit ==
    /\ vpage \in VideoPages
    /\ vurls = << >>
    /\ vpc = 1
    /\ vraised = {}
    /\ vout = Pending

\* urls = method(soup); video_urls.update(urls)
RunProbe ==
    /\ vpc \in 1..3
    /\ vurls' = DictUpdate(vurls, Probe(vpc, vpage))
    /\ vpc' = vpc + 1
    /\ UNCHANGED <<vpage, vraised, vout>>

\* except Exception: the probe raised, a warning is logged
ProbeRaises ==
    /\ vpc \in 1..3
    /\ vraised' = vraised \cup {vpc}
    /\ vpc' = vpc + 1
    /\ UNCHANGED <<vpage, vurls, vout>>

\* if not video_urls: raise ...; logger.info(...); return video_urls
Finish ==
    /\ vpc = 4
    /\ vout' = VideoOutcome(vurls)
    /\ vpc' = 5
    /\ UNCHANGED <<vpage, vurls, vraised>>

----------------------------------------------------------------------------
(* The info block div.under_video_additional: AnimeParser._parse_years,    *)
(* _parse_genres_and_themes, and the utilities they use.  The children of  *)
(* the block are <br>, text nodes and anchors <a href><i>itext</i>text</a>;*)
(* catalog says that the href matches /anime/.  Here the tokens of a text  *)
(* stand side by side: a blank is the token W(" "), a run of digits is one *)
(* token N(k).  The labels are transliterated like the other words.        *)

Br == [kind |-> "br", catalog |-> FALSE, itext |-> <<>>, text |-> <<>>]
TextNode(text) == [kind |-> "text", catalog |-> FALSE, itext |-> <<>>, text |-> text]
Anchor(catalog, itext, text) ==
    [kind |-> "a", catalog |-> catalog, itext |-> itext, text |-> text]

PATTERN_YEARS_RELEASE == W("Gody vypuska:")
PATTERN_YEAR_RELEASE == W("God vypuska:")
ORIGINAL_WORD == W("Originalnoe")

MIN_YEAR == 1900
MAX_YEAR == 2100

\* the number of decimal digits of k
RECURSIVE Digits(_)
Digits(k) == IF k < 10 THEN 1 ELSE 1 + Digits(k \div 10)

\* the number made of the first four digits of a run of four digits or more
RECURSIVE FirstFour(_)
FirstFour(k) == IF k < 10000 THEN k ELSE FirstFour(k \div 10)

\* the tokens in which \d{4} matches
HasFourDigits(t) == IsNum(t) /\ Digits(t.n) >= 4

\* len(token)
TokenLen(t) ==
    IF IsNum(t) THEN Digits(t.n)
    ELSE CASE t.w = " " -> 1
           [] t.w = "-" -> 1
           [] t.w = "god" -> 3
           [] t.w = "Anime" -> 5
           [] t.w = "Drama" -> 5
           [] t.w = "Shkola" -> 6
           [] OTHER -> 12

\* len(text)
RECURSIVE CharLen(_)
CharLen(text) == IF text = <<>> THEN 0 ELSE TokenLen(Head(text)) + CharLen(Tail(text))

\* str.strip() and clean_text on a text of tokens: blanks at the ends go
RECURSIVE Strip(_)
Strip(text) ==
    IF text = <<>> THEN <<>>
    ELSE IF Head(text) = W(" ") THEN Strip(Tail(text))
    ELSE IF text[Len(text)] = W(" ") THEN Strip(SubSeq(text, 1, Len(text) - 1))
    ELSE text

\* utils.extract_text_from_link: the <i> tags are removed, then a leading
\* "Anime" and the blanks after it
extract_text_from_link(link) ==
    LET text == Strip(link.text)
    IN  IF text # <<>> /\ Head(text) = W("Anime") THEN Strip(Tail(text)) ELSE text

\* link.get_text(strip=True): the text of the <i> tags included
GetText(link) == Strip(link.itext \o link.text)

\* utils.extract_year_from_text: re.search finds the first run of four
\* digits, and its year counts when it is in range; None otherwise
extract_year_from_text(text) ==
    LET at == {i \in 1..Len(text) : HasFourDigits(text[i])}
    IN  IF at = {} THEN None
        ELSE LET first == CHOOSE i \in at : \A j \in at : i <= j
                 year == FirstFour(text[first].n)
             IN  IF MIN_YEAR <= year /\ year <= MAX_YEAR THEN year ELSE None

\* utils.is_year: the whole text is four digits, in range
is_year(text) ==
    /\ Len(Strip(text)) = 1
    /\ IsNum(Strip(text)[1])
    /\ Digits(Strip(text)[1].n) = 4
    /\ MIN_YEAR <= Strip(text)[1].n /\ Strip(text)[1].n <= MAX_YEAR

YEAR_SECTION_MAX_LEN == 6

\* AnimeParser._is_year_section
is_year_section(section_links) ==
    \E k \in 1..Len(section_links) :
        LET text == extract_text_from_link(section_links[k])
        IN  \/ is_year(text)
            \/ /\ CharLen(text) <= YEAR_SECTION_MAX_LEN
               /\ \E i \in 1..Len(text) : HasFourDigits(text[i])

\* AnimeParser._split_info_block_by_br: the runs of children between <br>
\* tags, the empty runs left out
RECURSIVE split_info_block_by_br(_, _)
split_info_block_by_br(children, current_section) ==
    IF children = <<>>
    THEN IF current_section # <<>> THEN <<current_section>> ELSE <<>>
    ELSE IF Head(children).kind = "br"
         THEN (IF current_section # <<>> THEN <<current_section>> ELSE <<>>)
                \o split_info_block_by_br(Tail(children), <<>>)
         ELSE split_info_block_by_br(Tail(children),
                                     Append(current_section, Head(children)))

\* section_soup.find_all('a', href=re.compile(r'/anime/'))
IsCatalogLink(element) == element.kind = "a" /\ element.catalog
SectionLinks(section) == SelectSeq(section, IsCatalogLink)

\* the inner loop of _parse_genres_and_themes (parser.py 167-171) over the
\* first n links: target_list afterwards
RECURSIVE AppendTexts(_, _, _)
AppendTexts(target_list, section_links, n) ==
    IF n = 0 THEN target_list
    ELSE LET before == AppendTexts(target_list, section_links, n - 1)
             text == extract_text_from_link(section_links[n])
         IN  IF /\ text # <<>>
                /\ ~is_year(text)
                /\ CharLen(text) > 1
                /\ ~ \A i \in 1..Len(text) : IsNum(text[i])     \* not text.isdigit()
                /\ text \notin Range(before)
             THEN Append(before, text)
             ELSE before

\* the body of the loop `for i, section_html in enumerate(sections)` of
\* _parse_genres_and_themes (parser.py 150-171); i counts from 0
GenreSectionStep(section, i, genre_list, theme_list) ==
    LET section_links == SectionLinks(section)
    IN  IF section_links = <<>> \/ is_year_section(section_links)
        THEN [genres |-> genre_list, themes |-> theme_list]
        ELSE IF i = 0
        THEN [genres |-> AppendTexts(genre_list, section_links, Len(section_links)),
              themes |-> theme_list]
        ELSE IF i = 1
        THEN [genres |-> genre_list,
              themes |-> AppendTexts(theme_list, section_links, Len(section_links))]
        ELSE [genres |-> genre_list, themes |-> theme_list]

\* the loop `for link in ...` of _parse_years and of the fallback over the
\* texts of the first n links: year_list afterwards
RECURSIVE AppendYears(_, _, _)
AppendYears(year_list, link_texts, n) ==
    IF n = 0 THEN year_list
    ELSE LET before == AppendYears(year_list, link_texts, n - 1)
             year == extract_year_from_text(link_texts[n])
         IN  IF year # None /\ year \notin Range(before)
             THEN Append(before, year)
             ELSE before

\* the body of the loop over the sections in _parse_years (parser.py 185-196)
YearSectionStep(section, year_list) ==
    LET section_links == SectionLinks(section)
        texts == [k \in 1..Len(section_links) |->
                     extract_text_from_link(section_links[k])]
    IN  AppendYears(year_list, texts, Len(texts))

\* positions of the text nodes that hold the label
LabelPositions(children, label) ==
    {p \in 1..Len(children) :
        children[p].kind = "text" /\ label \in Range(children[p].text)}

\* the texts of the children after position p, in document order: of an
\* anchor first the text of its <i>, then its own
RECURSIVE TextsAfter(_, _)
TextsAfter(children, p) ==
    IF p >= Len(children) THEN <<>>
    ELSE children[p + 1].itext \o children[p + 1].text \o TextsAfter(children, p + 1)

\* what follows the label in the text node at p, and then the later texts
AfterLabel(children, p, label) ==
    LET text == children[p].text
        at == CHOOSE i \in 1..Len(text) :
                  text[i] = label /\ \A j \in 1..(i - 1) : text[j] # label
    IN  SubSeq(text, at + 1, Len(text)) \o TextsAfter(children, p)

\* AnimeParser._parse_years_fallback on str(info_block), in which a <br>
\* tag reads <br/>
parse_years_fallback(children) ==
    LET plural == LabelPositions(children, PATTERN_YEARS_RELEASE)
        single == LabelPositions(children, PATTERN_YEAR_RELEASE)
    IN  IF plural # {}
        THEN \* the markup between the label and the next "Originalnoe"
             LET ends == {q \in LabelPositions(children, ORIGINAL_WORD) :
                             \E p \in plural : p < q}
             IN  IF ends = {} THEN <<>>
                 ELSE LET p == CHOOSE x \in plural : \A y \in plural : x <= y
                          after == {q \in ends : p < q}
                          q == CHOOSE x \in after : \A y \in after : x <= y
                          year_links == SectionLinks(SubSeq(children, p + 1, q - 1))
                          texts == [k \in 1..Len(year_links) |-> GetText(year_links[k])]
                      IN  AppendYears(<<>>, texts, Len(texts))
        ELSE IF single # {}
        THEN LET p == CHOOSE x \in single : \A y \in single : x <= y
                 \* <a ...> ... <i>...</i>\s*(\d{4})
                 marked == {k \in (p + 1)..Len(children) :
                               /\ children[k].kind = "a"
                               /\ children[k].itext # <<>>
                               /\ Strip(children[k].text) # <<>>
                               /\ HasFourDigits(Strip(children[k].text)[1])}
                 \* the label, then the first four digits after it
                 after == AfterLabel(children, p, PATTERN_YEAR_RELEASE)
                 digits == {i \in 1..Len(after) : HasFourDigits(after[i])}
                 year_val ==
                     IF marked # {}
                     THEN FirstFour(Strip(children[CHOOSE k \in marked :
                                              \A j \in marked : k <= j].text)[1].n)
                     ELSE IF digits # {}
                     THEN FirstFour(after[CHOOSE i \in digits :
                                              \A j \in digits : i <= j].n)
                     ELSE None
             IN  IF year_val # None /\ MIN_YEAR <= year_val /\ year_val <= MAX_YEAR
                 THEN <<year_val>>
                 ELSE <<>>
        ELSE <<>>

\* list.sort() of the years after the identity sort
SortYears_Unsorted(year_list) == year_list

\* years.sort()
SortYears(year_list) == StableSort(year_list, [y \in Range(year_list) |-> y])

\* models/anime.py, Anime.set_year_from_years; None is also `not self.year`
set_year_from_years(year, year_list) ==
    IF year = None /\ year_list # <<>> THEN -MaxOf({-y : y \in Range(year_list)})
    ELSE year

----------------------------------------------------------------------------
(* The info block's specification: _parse_genres_and_themes and then       *)
(* _parse_years on one block, as AnimeParser.parse calls them, and the     *)
(* year of the Anime that is built from their results.                     *)

MaxInfo == 3

InfoElements ==
    {Br,
     TextNode(<<PATTERN_YEAR_RELEASE>>),
     TextNode(<<PATTERN_YEARS_RELEASE>>),
     TextNode(<<ORIGINAL_WORD>>),
     TextNode(<<N(1234), W(" "), N(2015)>>),
     Anchor(TRUE, <<>>, <<N(2020)>>),
     Anchor(TRUE, <<>>, <<N(2019)>>),
     Anchor(TRUE, <<>>, <<N(2019), W("-"), N(2020)>>),
     Anchor(TRUE, <<>>, <<W("Drama")>>),
     Anchor(TRUE, <<>>, <<W("Anime"), W(" "), W("Shkola")>>),
     Anchor(TRUE, <<N(2017)>>, <<W("god")>>),
     Anchor(FALSE, <<W("Anime")>>, <<N(2016)>>)}

InfoBlocks ==
    {[present |-> FALSE, children |-> <<>>]}
        \cup [present : {TRUE}, children : SeqsUpTo(InfoElements, MaxInfo)]

NoInfo == [genres |-> <<>>, themes |-> <<>>, years |-> <<>>, year |-> None]

InfoLocalsInit ==
    /\ isections = <<>>
    /\ isec = 1
    /\ genres = <<>>
    /\ themes = <<>>
    /\ years = <<>>
    /\ iout = NoInfo

InfoInit ==
    /\ iblock \in InfoBlocks
    /\ iphase = "new"
    /\ InfoLocalsInit

\* `if not info_block: return` in both methods (parser.py 145-146, 180-181)
NoInfoBlock ==
    /\ iphase = "new"
    /\ ~iblock.present
    /\ iout' = [genres |-> <<>>, themes |-> <<>>, years |-> <<>>,
                year |-> set_year_from_years(None, <<>>)]
    /\ iphase' = "done"
    /\ UNCHANGED <<iblock, isections, isec, genres, themes, years>>

\* sections = self._split_info_block_by_br(info_block) (parser.py 148)
SplitSections ==
    /\ iphase = "new"
    /\ iblock.present
    /\ isections' = split_info_block_by_br(iblock.children, <<>>)
    /\ isec' = 1
    /\ iphase' = "genres"
    /\ UNCHANGED <<iblock, genres, themes, years, iout>>

\* one turn of the loop of _parse_genres_and_themes
GenreSection ==
    /\ iphase = "genres"
    /\ isec <= Len(isections)
    /\ genres' = GenreSectionStep(isections[isec], isec - 1, genres, themes).genres
    /\ themes' = GenreSectionStep(isections[isec], isec - 1, genres, themes).themes
    /\ isec' = isec + 1
    /\ UNCHANGED <<iblock, isections, years, iphase, iout>>

\* return genres, themes; then _parse_years splits the block again
EndGenres ==
    /\ iphase = "genres"
    /\ isec > Len(isections)
    /\ isec' = 1
    /\ iphase' = "years"
    /\ UNCHANGED <<iblock, isections, genres, themes, years, iout>>

\* one turn of the loop over the sections in _parse_years
YearSection ==
    /\ iphase = "years"
    /\ isec <= Len(isections)
    /\ years' = YearSectionStep(isections[isec], years)
    /\ isec' = isec + 1
    /\ UNCHANGED <<iblock, isections, genres, themes, iphase, iout>>

\* if not years: years = self._parse_years_fallback(info_block)
YearsFallback ==
    /\ iphase = "years"
    /\ isec > Len(isections)
    /\ years = <<>>
    /\ years' = parse_years_fallback(iblock.children)
    /\ iphase' = "fallen"
    /\ UNCHANGED <<iblock, isections, isec, genres, themes, iout>>

\* parser.py 201-205, and Anime(genres=..., themes=..., years=..., year=...)
ReturnYears ==
    /\ \/ iphase = "years" /\ isec > Len(isections) /\ years # <<>>
       \/ iphase = "fallen"
    /\ years' = IF years # <<>> THEN SortYears(years) ELSE years
    /\ iout' = [genres |-> genres, themes |-> themes, years |-> years',
                year |-> set_year_from_years(
                             IF years' # <<>> THEN years'[1] ELSE None, years')]
    /\ iphase' = "done"
    /\ UNCHANGED <<iblock, isections, isec, genres, themes>>

----------------------------------------------------------------------------
(* client.py, downloader.py: one call of JutsuClient._download_episodes_list *)
(* An episode of the batch is [season, number]; its page URL is             *)
(* https://jut.su/naruto[/season-S]/episode-N.html.  A file path is         *)
(* [dir, stem, number, quality], the string dir/stem_N_qualityp.mp4 with    *)
(* "episode" as stem, or stem_episode_N_qualityp.mp4 in the working         *)
(* directory (dir = "") with a stem taken from the URL.                     *)

\* REGEX_EPISODE_FROM_URL, group 1: the path segment before /episode-N.html
SegmentBeforeEpisode(episode) ==
    IF episode.season = None THEN <<"naruto">> ELSE <<"season", episode.season>>

\* output_path = None
NoPath == [dir |-> "", stem |-> <<>>, number |-> 0, quality |-> 0]

\* output_dir = None; `if output_dir:` takes the empty string the same way
NoDir == ""

\* VideoDownloader.generate_filename
generate_filename(episode, quality, output_path) ==
    IF output_path # NoPath THEN output_path
    ELSE [dir |-> NoDir, stem |-> SegmentBeforeEpisode(episode),
          number |-> episode.number, quality |-> quality]

\* client.py 629-632: the output_path that the loop hands to download_episode
BatchOutputPath(episode, output_dir, quality) ==
    IF output_dir # NoDir
    THEN [dir |-> output_dir, stem |-> <<"episode">>,
          number |-> episode.number, quality |-> quality]
    ELSE NoPath

\* download_episode, client.py 343-353: the quality used and the file path
DownloadPath(episode, output_path, quality, available) ==
    generate_filename(episode,
                      IF quality \in available THEN quality ELSE MaxOf(available),
                      output_path)

MaxBatch == 3
BatchSeasons == {None, 1, 2}
BatchNumbers == {1, 2}
OutputDirs == {NoDir, "out"}
PageQualities == {480, 720}
REQUESTED_QUALITY == 720

BatchEpisodes == [season : BatchSeasons, number : BatchNumbers]

\* lists of distinct episodes
Batches ==
    {b \in SeqsUpTo(BatchEpisodes, MaxBatch) :
        \A i, j \in 1..Len(b) : i # j => b[i] # b[j]}

\* the except clauses without the os.remove
Cleanup_KeepsFile(file, remove_ok) == [file |-> file, remove |-> "not tried"]

\* the except clauses of VideoDownloader.download (downloader.py 121-126,
\* 131-135, 140-144) on what stands at output_path: "none", or a file ("old",
\* "partial"): the file is removed if it exists;
\* remove_ok says whether os.remove succeeds (an OSError of it is passed over)
Cleanup(file, remove_ok) ==
    IF file = "none" THEN [file |-> "none", remove |-> "not tried"]
    ELSE IF remove_ok THEN [file |-> "none", remove |-> "removed"]
    ELSE [file |-> file, remove |-> "failed"]

\* the loop without its `except Exception`: the error leaves the loop
AfterFailure_Reraises(idx) == [idx |-> idx, phase |-> "raised"]

\* client.py 660-662: except Exception: log the error and continue
AfterFailure(idx) == [idx |-> idx + 1, phase |-> "loop"]

DownloadInit ==
    /\ dbatch \in Batches
    /\ ddir \in OutputDirs
    /\ didx = 1
    /\ dfiles = << >>
    /\ dlog = <<>>
    /\ dphase = "loop"
    /\ dtried = <<>>

\* one turn of the loop in which download_episode returns the file path:
\* the file at that path now holds the video of episode didx
DownloadEpisode ==
    /\ dphase = "loop"
    /\ didx <= Len(dbatch)
    /\ \E available \in (SUBSET PageQualities) \ {{}} :
          LET path == DownloadPath(dbatch[didx],
                                   BatchOutputPath(dbatch[didx], ddir, REQUESTED_QUALITY),
                                   REQUESTED_QUALITY, available)
          IN  /\ dfiles' = [p \in DOMAIN dfiles \cup {path} |->
                               IF p = path THEN didx ELSE dfiles[p]]
              /\ dlog' = Append(dlog, [idx |-> didx, path |-> path])
    /\ dtried' = Append(dtried, [idx |-> didx, outcome |-> "returned"])
    /\ didx' = didx + 1
    /\ UNCHANGED <<dbatch, ddir, dphase>>

\* one turn in which get_video_urls finds nothing: VideoExtractionError is
\* raised before any file is touched and the loop goes on (client.py 660-662)
ExtractionRaises ==
    /\ dphase = "loop"
    /\ didx <= Len(dbatch)
    /\ dtried' = Append(dtried, [idx |-> didx, outcome |-> "VideoExtractionError"])
    /\ didx' = AfterFailure(didx).idx
    /\ dphase' = AfterFailure(didx).phase
    /\ UNCHANGED <<dbatch, ddir, dfiles, dlog>>

\* one turn in which VideoDownloader.download raises: the file at the output
\* path is removed if it exists and can be removed (downloader.py 118-146),
\* and the loop goes on
TransferRaises ==
    /\ dphase = "loop"
    /\ didx <= Len(dbatch)
    /\ \E available \in (SUBSET PageQualities) \ {{}}, remove_ok \in BOOLEAN :
          LET path == DownloadPath(dbatch[didx],
                                   BatchOutputPath(dbatch[didx], ddir, REQUESTED_QUALITY),
                                   REQUESTED_QUALITY, available)
              file == IF path \in DOMAIN dfiles THEN "old" ELSE "none"
          IN  dfiles' = IF Cleanup(file, remove_ok).file = "none"
                        THEN [p \in DOMAIN dfiles \ {path} |-> dfiles[p]]
                        ELSE dfiles
    /\ \E error \in {"NetworkError", "DownloadError"} :
          dtried' = Append(dtried, [idx |-> didx, outcome |-> error])
    /\ didx' = AfterFailure(didx).idx
    /\ dphase' = AfterFailure(didx).phase
    /\ UNCHANGED <<dbatch, ddir, dlog>>

\* client.py 667-668: return downloaded_files
ReturnFiles ==
    /\ dphase = "loop"
    /\ didx > Len(dbatch)
    /\ dphase' = "returned"
    /\ UNCHANGED <<dbatch, ddir, didx, dfiles, dlog, dtried>>

----------------------------------------------------------------------------
(* downloader.py: one call of VideoDownloader.download.  tfile is what     *)
(* stands at output_path: "none", "old" (a file that was there before the  *)
(* call), "partial" (opened by this call, twritten chunks written) or       *)
(* "complete".  tpc is the position in the try block; every step of the    *)
(* block either goes on or raises, and a raise runs the except clause.     *)

MaxChunks == 3

\* what response.iter_content yields: chunks with data and empty chunks
ChunkLists == SeqsUpTo({"data", "empty"}, MaxChunks)

TransferInputs ==
    [chunks : ChunkLists, existing : BOOLEAN, callback : BOOLEAN, total_size : {0, 1}]

\* the call has not ended; an ended call has the kind "returned",
\* "NetworkError" or "DownloadError" and the position at which it ended
Running == [kind |-> "running", at |-> ""]

TransferInit ==
    /\ tin \in TransferInputs
    /\ tpc = "dir"
    /\ ti = 1
    /\ twritten = 0
    /\ tfile = IF tin.existing THEN "old" ELSE "none"
    /\ tremove = "not tried"
    /\ tout = Running

\* an except clause: the clean-up, then raise NetworkError or DownloadError
Fail(error) ==
    /\ \E remove_ok \in BOOLEAN :
          /\ tfile' = Cleanup(tfile, remove_ok).file
          /\ tremove' = Cleanup(tfile, remove_ok).remove
    /\ tout' = [kind |-> error, at |-> tpc]
    /\ tpc' = "raised"
    /\ UNCHANGED <<tin, ti, twritten>>

Step(to) ==
    /\ tpc' = to
    /\ UNCHANGED <<tin, ti, twritten, tfile, tremove, tout>>

\* downloader.py 95: ensure_output_directory
EnsureDir == tpc = "dir" /\ Step("get")
EnsureDirRaises == tpc = "dir" /\ Fail("DownloadError")           \* OSError

\* downloader.py 97-98: session.get, raise_for_status
Get == tpc = "get" /\ Step("length")
GetRaises == tpc = "get" /\ Fail("NetworkError")                  \* RequestException

\* downloader.py 100: int(response.headers.get('content-length', 0))
ContentLength == tpc = "length" /\ Step("open")
ContentLengthRaises == tpc = "length" /\ Fail("DownloadError")    \* ValueError

\* downloader.py 103: open(output_path, 'wb') creates or truncates the file
Open ==
    /\ tpc = "open"
    /\ tfile' = "partial"
    /\ tpc' = "chunk"
    /\ UNCHANGED <<tin, ti, twritten, tremove, tout>>
OpenRaises == tpc = "open" /\ Fail("DownloadError")               \* OSError

\* downloader.py 104-105: the next chunk of iter_content; an empty one is skipped
NextChunk ==
    /\ tpc = "chunk"
    /\ ti <= Len(tin.chunks)
    /\ IF tin.chunks[ti] = "data"
       THEN tpc' = "write" /\ UNCHANGED ti
       ELSE ti' = ti + 1 /\ UNCHANGED tpc
    /\ UNCHANGED <<tin, twritten, tfile, tremove, tout>>
NextChunkRaises ==                                                \* RequestException
    /\ tpc = "chunk"
    /\ Fail("NetworkError")

\* downloader.py 106-107
Write ==
    /\ tpc = "write"
    /\ twritten' = twritten + 1
    /\ IF tin.callback /\ tin.total_size > 0
       THEN tpc' = "callback" /\ UNCHANGED ti
       ELSE tpc' = "chunk" /\ ti' = ti + 1
    /\ UNCHANGED <<tin, tfile, tremove, tout>>
WriteRaises == tpc = "write" /\ Fail("DownloadError")             \* OSError

\* downloader.py 109-110
Callback ==
    /\ tpc = "callback"
    /\ tpc' = "chunk"
    /\ ti' = ti + 1
    /\ UNCHANGED <<tin, twritten, tfile, tremove, tout>>
CallbackRaises == tpc = "callback" /\ Fail("DownloadError")       \* Exception

\* downloader.py 112-113: the loop is over, the file is closed, return output_path
Return ==
    /\ tpc = "chunk"
    /\ ti > Len(tin.chunks)
    /\ tfile' = "complete"
    /\ tout' = [kind |-> "returned", at |-> tpc]
    /\ tpc' = "done"
    /\ UNCHANGED <<tin, ti, twritten, tremove>>

----------------------------------------------------------------------------
(* client.py: one call of JutsuClient.download_episode.  ehtml is what     *)
(* _get_html returns for the episode page: NoHtml (None, the request        *)
(* failed) or the page; efiles maps each existing file path to the URL      *)
(* whose content it holds.                                                 *)

NoHtml == [sources |-> <<>>, videos |-> <<>>, players |-> <<>>, fetched |-> FALSE]
Html(pg) == [sources |-> pg.sources, videos |-> pg.videos, players |-> pg.players,
             fetched |-> TRUE]

\* get_video_urls returns None; `if not video_urls` takes {} the same way
NoUrls == << >>

\* VideoExtractor.extract_video_urls when no probe raises
extract_video_urls(html) ==
    VideoOutcome(DictUpdate(DictUpdate(DictUpdate(<< >>, Probe(1, html)),
                                       Probe(2, html)),
                            Probe(3, html)))

\* JutsuClient.get_video_urls: None when the page could not be fetched or
\* when extract_video_urls raised (VideoExtractionError or another exception)
get_video_urls(html) ==
    IF ~html.fetched THEN NoUrls
    ELSE IF extract_video_urls(html).kind # "ok" THEN NoUrls
    ELSE extract_video_urls(html).urls

\* int(key) of a quality key
KeyValue(key) == key[1].n

\* the quality selection that always takes the best available quality
SelectQuality_AlwaysBest(quality, video_urls) ==
    CHOOSE k \in DOMAIN video_urls :
        \A j \in DOMAIN video_urls : KeyValue(j) <= KeyValue(k)

\* client.py 343-349: the requested quality, or max(available_qualities, key=int)
SelectQuality(quality, video_urls) ==
    IF quality \in DOMAIN video_urls THEN quality
    ELSE CHOOSE k \in DOMAIN video_urls :
             \A j \in DOMAIN video_urls : KeyValue(j) <= KeyValue(k)

THE_EPISODE == [season |-> 1, number |-> 1]

RequestedQualities == {<<N(1080)>>, <<N(720)>>, <<N(480)>>}

GivenPath == [dir |-> "out", stem |-> <<"video">>, number |-> 0, quality |-> 0]

NotChosen == [quality |-> <<>>, url |-> <<>>, path |-> NoPath]

EpisodeInit ==
    /\ ehtml \in {NoHtml} \cup {Html(pg) : pg \in VideoPages}
    /\ equality \in RequestedQualities
    /\ epath \in {NoPath, GivenPath}
    /\ epc = "start"
    /\ eurls = NoUrls
    /\ echosen = NotChosen
    /\ efiles = << >>
    /\ eout = Running

\* client.py 339-341: video_urls = self.get_video_urls(episode_url)
GetVideoUrls ==
    /\ epc = "start"
    /\ eurls' = get_video_urls(ehtml)
    /\ epc' = "urls"
    /\ UNCHANGED <<ehtml, equality, epath, echosen, efiles, eout>>

\* client.py 340-343: if not video_urls: raise VideoExtractionError
NoVideoUrls ==
    /\ epc = "urls"
    /\ DOMAIN eurls = {}
    /\ eout' = [kind |-> "VideoExtractionError", at |-> epc]
    /\ epc' = "raised"
    /\ UNCHANGED <<ehtml, equality, epath, eurls, echosen, efiles>>

\* client.py 345-355: the quality, its URL and the output path
ChooseQuality ==
    /\ epc = "urls"
    /\ DOMAIN eurls # {}
    /\ echosen' = [quality |-> SelectQuality(equality, eurls),
                   url |-> eurls[SelectQuality(equality, eurls)],
                   path |-> generate_filename(
                                THE_EPISODE,
                                KeyValue(SelectQuality(equality, eurls)),
                                epath)]
    /\ epc' = "download"
    /\ UNCHANGED <<ehtml, equality, epath, eurls, efiles, eout>>

\* client.py 364-376: self._downloader.download returns the path
DownloadReturns ==
    /\ epc = "download"
    /\ efiles' = [p \in DOMAIN efiles \cup {echosen.path} |->
                     IF p = echosen.path THEN echosen.url ELSE efiles[p]]
    /\ eout' = [kind |-> "returned", at |-> epc]
    /\ epc' = "done"
    /\ UNCHANGED <<ehtml, equality, epath, eurls, echosen>>

\* client.py 378-383: download raised after its clean-up; the error is raised on
DownloadRaises ==
    /\ epc = "download"
    /\ \E error \in {"NetworkError", "DownloadError"} :
          eout' = [kind |-> error, at |-> epc]
    /\ \E opened, remove_ok \in BOOLEAN :
          efiles' = IF opened /\ Cleanup("partial", remove_ok).file # "none"
                    THEN [p \in DOMAIN efiles \cup {echosen.path} |->
                             IF p = echosen.path THEN echosen.url ELSE efiles[p]]
                    ELSE efiles
    /\ epc' = "raised"
    /\ UNCHANGED <<ehtml, equality, epath, eurls, echosen>>

----------------------------------------------------------------------------
(* client.py: JutsuClient.is_authenticated and the calls of login on one   *)
(* client.  The site's answer to a call is                                  *)
(*   get_ok      the first GET of the login page did not raise              *)
(*   post        "ok", or the exception of session.post / raise_for_status  *)
(*   panel       soup.select_one("#topLoginPanel") finds an element         *)
(*   form        soup.select_one("form.login_panel_f") finds an element     *)
(*   errors      a text of the page holds one of the error words            *)
(*   panel_word  "topLoginPanel" in html                                    *)
(*   form_word   "login_panel_f" in html                                    *)

MaxLogins == 3

\* an element found by its id or class has that word in the markup
Answers ==
    {a \in [get_ok : BOOLEAN, post : {"ok", "ConnectionError", "HTTPError"},
            panel : BOOLEAN, form : BOOLEAN, errors : BOOLEAN,
            panel_word : BOOLEAN, form_word : BOOLEAN] :
        /\ a.panel => a.panel_word
        /\ a.form => a.form_word}

NoAnswer == [get_ok |-> FALSE, post |-> "none", panel |-> FALSE, form |-> FALSE,
             errors |-> FALSE, panel_word |-> FALSE, form_word |-> FALSE]

\* login whose except clause leaves is_authenticated as it was
login_KeepsFlagOnError(answer, flag) ==
    IF answer.post # "ok"
    THEN [is_authenticated |-> flag, result |-> "NetworkError"]
    ELSE IF answer.panel \/ (~answer.form /\ ~answer.panel_word /\ ~answer.form_word)
    THEN [is_authenticated |-> TRUE, result |-> "True"]
    ELSE [is_authenticated |-> FALSE, result |-> "False"]

\* JutsuClient.login: is_authenticated after the call and how the call ended,
\* "True" or "False" for the returned value, "NetworkError" for the raise;
\* flag is is_authenticated before the call
login(answer, flag) ==
    IF answer.post # "ok"                       \* except RequestException
    THEN [is_authenticated |-> FALSE, result |-> "NetworkError"]
    ELSE IF answer.panel
    THEN [is_authenticated |-> TRUE, result |-> "True"]
    ELSE IF answer.form                         \* with or without error words
    THEN [is_authenticated |-> FALSE, result |-> "False"]
    ELSE IF ~answer.panel_word /\ ~answer.form_word
    THEN [is_authenticated |-> TRUE, result |-> "True"]
    ELSE [is_authenticated |-> FALSE, result |-> "False"]

\* JutsuClient.__init__
LoginInit ==
    /\ is_authenticated = FALSE
    /\ lanswer = NoAnswer
    /\ lresults = <<>>

\* one call of login
Login ==
    /\ Len(lresults) < MaxLogins
    /\ \E answer \in Answers :
          /\ lanswer' = answer
          /\ is_authenticated' = login(answer, is_authenticated).is_authenticated
          /\ lresults' = Append(lresults, login(answer, is_authenticated).result)

----------------------------------------------------------------------------
(* utils.py: clean_description.  A description is a string, the sequence   *)
(* of its characters; the Cyrillic words of SEO_WORDS are written in Latin *)
(* letters.                                                                *)

IsSpace(c) == c \in {" ", "\t"}

\* str.lower() on the letters of the model
LowerChar(c) ==
    IF c = "S" THEN "s" ELSE IF c = "A" THEN "a" ELSE c

lower(word) == [i \in 1..Len(word) |-> LowerChar(word[i])]

SEO_WORDS ==
    {<<"s", "e", "r", "i", "y", "a">>, <<"s", "e", "r", "i", "i">>,
     <<"s", "e", "z", "o", "n">>, <<"o", "n", "l", "a", "y", "n">>,
     <<"a", "n", "i", "m", "e">>, <<"v", "i", "d", "e", "o">>,
     <<"s", "m", "o", "t", "r", "e", "t">>}

MIN_WORD_LENGTH == 2

\* str.split(): the maximal runs of characters that are not whitespace;
\* word is the run read so far of s[1..i-1]
RECURSIVE SplitFrom(_, _, _)
SplitFrom(s, i, word) ==
    IF i > Len(s) THEN (IF word = <<>> THEN <<>> ELSE <<word>>)
    ELSE IF IsSpace(s[i])
    THEN (IF word = <<>> THEN <<>> ELSE <<word>>) \o SplitFrom(s, i + 1, <<>>)
    ELSE SplitFrom(s, i + 1, Append(word, s[i]))

split(s) == SplitFrom(s, 1, <<>>)

\* ' '.join(words)
RECURSIVE join(_)
join(words) ==
    IF words = <<>> THEN <<>>
    ELSE IF Len(words) = 1 THEN words[1]
    ELSE words[1] \o <<" ">> \o join(Tail(words))

\* re.sub(r'\s+', ' ', s)
RECURSIVE CollapseSpaces(_)
CollapseSpaces(s) ==
    IF s = <<>> THEN <<>>
    ELSE IF IsSpace(s[1])
    THEN IF Len(s) > 1 /\ IsSpace(s[2]) THEN CollapseSpaces(Tail(s))
         ELSE <<" ">> \o CollapseSpaces(Tail(s))
    ELSE <<s[1]>> \o CollapseSpaces(Tail(s))

\* str.strip()
RECURSIVE strip(_)
strip(s) ==
    IF s = <<>> THEN <<>>
    ELSE IF IsSpace(s[1]) THEN strip(Tail(s))
    ELSE IF IsSpace(s[Len(s)]) THEN strip(SubSeq(s, 1, Len(s) - 1))
    ELSE s

\* prev_word = None: no word of split() is empty
NoWord == <<>>

should_skip(word) ==
    \/ Len(word) > MIN_WORD_LENGTH /\ lower(word) \in SEO_WORDS
    \/ word \in SEO_WORDS

\* CleanLoop in which prev_word is the last word read, skipped or not
RECURSIVE CleanLoop_PrevIsLastRead(_, _)
CleanLoop_PrevIsLastRead(words, n) ==
    IF n = 0 THEN [cleaned_words |-> <<>>, prev_word |-> NoWord]
    ELSE LET before == CleanLoop_PrevIsLastRead(words, n - 1)
             word == words[n]
         IN  IF ~should_skip(word) /\ word # before.prev_word
             THEN [cleaned_words |-> Append(before.cleaned_words, word),
                   prev_word |-> word]
             ELSE [before EXCEPT !.prev_word = word]

\* cleaned_words and prev_word after the loop has read words[1..n]
RECURSIVE CleanLoop(_, _)
CleanLoop(words, n) ==
    IF n = 0 THEN [cleaned_words |-> <<>>, prev_word |-> NoWord]
    ELSE LET before == CleanLoop(words, n - 1)
             word == words[n]
         IN  IF ~should_skip(word) /\ word # before.prev_word
             THEN [cleaned_words |-> Append(before.cleaned_words, word),
                   prev_word |-> word]
             ELSE before

clean_description(text) ==
    IF text = <<>> THEN <<>>
    ELSE LET words == split(text)
             result == join(CleanLoop(words, Len(words)).cleaned_words)
         IN  strip(CollapseSpaces(result))

\* the pieces descriptions are made of: a word, a stop-word in both cases, a
\* stop-word with a comma, whitespace
MaxPieces == 5

Pieces ==
    {<<"a">>, <<"s", "e", "z", "o", "n">>, <<"S", "e", "z", "o", "n">>,
     <<"a", "n", "i", "m", "e", ",">>, <<" ">>, <<"\t">>}

RECURSIVE Concat(_)
Concat(pieces) ==
    IF pieces = <<>> THEN <<>> ELSE Head(pieces) \o Concat(Tail(pieces))

Descriptions == {Concat(p) : p \in SeqsUpTo(Pieces, MaxPieces)}

NotCleaned == <<"?">>

\* one description, not yet cleaned
CleanInit ==
    /\ description \in Descriptions
    /\ cpc = "new"
    /\ cleaned = NotCleaned
    /\ recleaned = NotCleaned

\* parser.py 276: clean_description(description)
Clean ==
    /\ cpc = "new"
    /\ cleaned' = clean_description(description)
    /\ cpc' = "cleaned"
    /\ UNCHANGED <<description, recleaned>>

\* clean_description applied to its own result
CleanAgain ==
    /\ cpc = "cleaned"
    /\ recleaned' = clean_description(cleaned)
    /\ cpc' = "recleaned"
    /\ UNCHANGED <<description, cleaned>>

----------------------------------------------------------------------------
(* Specifications.  Each one runs one component; the variables of the       *)
(* other components stay at their idle values.                             *)

ParserIdle == page = [h1 |-> <<>>, watch |-> FALSE, nodes |-> <<>>,
                         rating |-> NoRatingMarkup]
                 /\ phase = "idle" /\ ParserLocalsInit
RatingIdle == rargs = [value |-> 0, best |-> 0, worst |-> 0, count |-> 0]
                 /\ rating = RatingError /\ rphase = "idle"
VideoIdle == vpage = [sources |-> <<>>, videos |-> <<>>, players |-> <<>>]
                /\ vurls = << >> /\ vpc = 0 /\ vraised = {} /\ vout = Pending

DownloadIdle == dbatch = <<>> /\ ddir = NoDir /\ didx = 0 /\ dfiles = << >>
                   /\ dlog = <<>> /\ dphase = "idle" /\ dtried = <<>>

InfoIdle == iblock = [present |-> FALSE, children |-> <<>>] /\ iphase = "idle"
               /\ InfoLocalsInit

TransferIdle == tin = [chunks |-> <<>>, existing |-> FALSE, callback |-> FALSE,
                       total_size |-> 0]
                   /\ tpc = "idle" /\ ti = 0 /\ twritten = 0 /\ tfile = "none"
                   /\ tremove = "not tried" /\ tout = Running

EpisodeIdle == ehtml = NoHtml /\ equality = <<>> /\ epath = NoPath /\ epc = "idle"
                  /\ eurls = NoUrls /\ echosen = NotChosen /\ efiles = << >>
                  /\ eout = Running

LoginIdle == is_authenticated = FALSE /\ lanswer = NoAnswer /\ lresults = <<>>

CleanIdle ==
    description = <<>> /\ cpc = "idle" /\ cleaned = NotCleaned /\ recleaned = NotCleaned

\* the variables of all components but one
exceptParser ==
    <<ratingVars, videoVars, downloadVars, infoVars, transferVars,
      episodeVars, loginVars, cleanVars>>
exceptRating ==
    <<parserVars, videoVars, downloadVars, infoVars, transferVars,
      episodeVars, loginVars, cleanVars>>
exceptVideo ==
    <<parserVars, ratingVars, downloadVars, infoVars, transferVars,
      episodeVars, loginVars, cleanVars>>
exceptDownload ==
    <<parserVars, ratingVars, videoVars, infoVars, transferVars,
      episodeVars, loginVars, cleanVars>>
exceptInfo ==
    <<parserVars, ratingVars, videoVars, downloadVars, transferVars,
      episodeVars, loginVars, cleanVars>>
exceptTransfer ==
    <<parserVars, ratingVars, videoVars, downloadVars, infoVars,
      episodeVars, loginVars, cleanVars>>
exceptEpisode ==
    <<parserVars, ratingVars, videoVars, downloadVars, infoVars,
      transferVars, loginVars, cleanVars>>
exceptLogin ==
    <<parserVars, ratingVars, videoVars, downloadVars, infoVars,
      transferVars, episodeVars, cleanVars>>
exceptClean ==
    <<parserVars, ratingVars, videoVars, downloadVars, infoVars,
      transferVars, episodeVars, loginVars>>

Init ==
    ParserInit /\ RatingIdle /\ VideoIdle /\ DownloadIdle /\ InfoIdle
        /\ TransferIdle /\ EpisodeIdle /\ LoginIdle /\ CleanIdle
Next ==
    \/ Classify /\ UNCHANGED exceptParser
    \/ BuildInfo /\ UNCHANGED exceptParser
    \/ ParseLink /\ UNCHANGED exceptParser
    \/ BuildSeasons /\ UNCHANGED exceptParser
    \/ ParseFlat /\ UNCHANGED exceptParser
    \/ Assemble /\ UNCHANGED exceptParser
Spec == Init /\ [][Next]_vars

RatingSpecInit ==
    RatingInit /\ ParserIdle /\ VideoIdle /\ DownloadIdle /\ InfoIdle
        /\ TransferIdle /\ EpisodeIdle /\ LoginIdle /\ CleanIdle
RatingNext == Construct /\ UNCHANGED exceptRating
RatingSpec == RatingSpecInit /\ [][RatingNext]_vars

VideoSpecInit ==
    VideoInit /\ ParserIdle /\ RatingIdle /\ DownloadIdle /\ InfoIdle
        /\ TransferIdle /\ EpisodeIdle /\ LoginIdle /\ CleanIdle
VideoNext ==
    \/ RunProbe /\ UNCHANGED exceptVideo
    \/ ProbeRaises /\ UNCHANGED exceptVideo
    \/ Finish /\ UNCHANGED exceptVideo
VideoSpec == VideoSpecInit /\ [][VideoNext]_vars

DownloadSpecInit ==
    DownloadInit /\ ParserIdle /\ RatingIdle /\ VideoIdle /\ InfoIdle
        /\ TransferIdle /\ EpisodeIdle /\ LoginIdle /\ CleanIdle
DownloadNext ==
    \/ DownloadEpisode /\ UNCHANGED exceptDownload
    \/ ExtractionRaises /\ UNCHANGED exceptDownload
    \/ TransferRaises /\ UNCHANGED exceptDownload
    \/ ReturnFiles /\ UNCHANGED exceptDownload
DownloadSpec == DownloadSpecInit /\ [][DownloadNext]_vars

InfoSpecInit ==
    InfoInit /\ ParserIdle /\ RatingIdle /\ VideoIdle /\ DownloadIdle
        /\ TransferIdle /\ EpisodeIdle /\ LoginIdle /\ CleanIdle
InfoNext ==
    \/ NoInfoBlock /\ UNCHANGED exceptInfo
    \/ SplitSections /\ UNCHANGED exceptInfo
    \/ GenreSection /\ UNCHANGED exceptInfo
    \/ EndGenres /\ UNCHANGED exceptInfo
    \/ YearSection /\ UNCHANGED exceptInfo
    \/ YearsFallback /\ UNCHANGED exceptInfo
    \/ ReturnYears /\ UNCHANGED exceptInfo
InfoSpec == InfoSpecInit /\ [][InfoNext]_vars

TransferSpecInit ==
    TransferInit /\ ParserIdle /\ RatingIdle /\ VideoIdle /\ DownloadIdle /\ InfoIdle
        /\ EpisodeIdle /\ LoginIdle /\ CleanIdle
TransferNext ==
    \/ EnsureDir /\ UNCHANGED exceptTransfer
    \/ EnsureDirRaises /\ UNCHANGED exceptTransfer
    \/ Get /\ UNCHANGED exceptTransfer
    \/ GetRaises /\ UNCHANGED exceptTransfer
    \/ ContentLength /\ UNCHANGED exceptTransfer
    \/ ContentLengthRaises /\ UNCHANGED exceptTransfer
    \/ Open /\ UNCHANGED exceptTransfer
    \/ OpenRaises /\ UNCHANGED exceptTransfer
    \/ NextChunk /\ UNCHANGED exceptTransfer
    \/ NextChunkRaises /\ UNCHANGED exceptTransfer
    \/ Write /\ UNCHANGED exceptTransfer
    \/ WriteRaises /\ UNCHANGED exceptTransfer
    \/ Callback /\ UNCHANGED exceptTransfer
    \/ CallbackRaises /\ UNCHANGED exceptTransfer
    \/ Return /\ UNCHANGED exceptTransfer
TransferSpec == TransferSpecInit /\ [][TransferNext]_vars

EpisodeSpecInit ==
    EpisodeInit /\ ParserIdle /\ RatingIdle /\ VideoIdle /\ DownloadIdle /\ InfoIdle
        /\ TransferIdle /\ LoginIdle /\ CleanIdle
EpisodeNext ==
    \/ GetVideoUrls /\ UNCHANGED exceptEpisode
    \/ NoVideoUrls /\ UNCHANGED exceptEpisode
    \/ ChooseQuality /\ UNCHANGED exceptEpisode
    \/ DownloadReturns /\ UNCHANGED exceptEpisode
    \/ DownloadRaises /\ UNCHANGED exceptEpisode
EpisodeSpec == EpisodeSpecInit /\ [][EpisodeNext]_vars

LoginSpecInit ==
    LoginInit /\ ParserIdle /\ RatingIdle /\ VideoIdle /\ DownloadIdle /\ InfoIdle
        /\ TransferIdle /\ EpisodeIdle /\ CleanIdle
LoginNext == Login /\ UNCHANGED exceptLogin
LoginSpec == LoginSpecInit /\ [][LoginNext]_vars

CleanSpecInit ==
    CleanInit /\ ParserIdle /\ RatingIdle /\ VideoIdle /\ DownloadIdle /\ InfoIdle
        /\ TransferIdle /\ EpisodeIdle /\ LoginIdle
CleanNext ==
    \/ Clean /\ UNCHANGED exceptClean
    \/ CleanAgain /\ UNCHANGED exceptClean
CleanSpec == CleanSpecInit /\ [][CleanNext]_vars

----------------------------------------------------------------------------
(* Properties of the parser *)

Returned == phase = "parsed" /\ anime.status = "ok"

SeasonOrZero(e) == IF e.season_number = None THEN 0 ELSE e.season_number

\* (season_number or 0, number) of a is not after that of b
PairLeq(a, b) ==
    \/ SeasonOrZero(a) < SeasonOrZero(b)
    \/ SeasonOrZero(a) = SeasonOrZero(b) /\ a.number <= b.number

FlatSorted ==
    \A i \in 1..(Len(anime.episodes) - 1) :
        PairLeq(anime.episodes[i], anime.episodes[i + 1])

FlatNoDuplicates ==
    \A i, j \in 1..Len(anime.episodes) :
        i # j => \/ anime.episodes[i].season_number # anime.episodes[j].season_number
                 \/ anime.episodes[i].number # anime.episodes[j].number

\* C1: for every page the parser accepts, the flat episode list is sorted
\* non-decreasing by (season_number or 0, number) and holds no two episodes
\* with the same (season_number, number), also when the page holds the same
\* episode link more than once.
C1_FlatSortedNoDuplicates == Returned => FlatSorted /\ FlatNoDuplicates

\* the seasons (positions in anime.seasons) whose list holds the object e
SeasonsHolding(e) ==
    {k \in 1..Len(anime.seasons) :
        \E j \in 1..Len(anime.seasons[k].episodes) :
            anime.seasons[k].episodes[j].id = e.id}

\* C2: when the returned Anime has a non-empty season list, every episode of
\* the flat list is in the episode list of exactly one Season.
C2_FlatEpisodeInOneSeason ==
    (Returned /\ anime.seasons # <<>>) =>
        \A i \in 1..Len(anime.episodes) :
            Cardinality(SeasonsHolding(anime.episodes[i])) = 1

\* a page with a season, a link of that season and a link of a season
\* that has no header
C2_Witness ==
    /\ Returned
    /\ anime.seasons # <<>>
    /\ anime.episodes # <<>>
    /\ \E l \in 1..Len(page.nodes) :
          /\ IsLink(page.nodes[l])
          /\ page.nodes[l].season # None
          /\ \A k \in 1..Len(anime.seasons) :
                anime.seasons[k].number # page.nodes[l].season

\* C3: every episode of a Season S has season_number = S.number, and the
\* season list is strictly ascending by number (so the numbers are distinct).
C3_SeasonEpisodesAndOrder ==
    Returned =>
        /\ \A k \in 1..Len(anime.seasons) :
              \A j \in 1..Len(anime.seasons[k].episodes) :
                  anime.seasons[k].episodes[j].season_number = anime.seasons[k].number
        /\ \A k \in 1..(Len(anime.seasons) - 1) :
              anime.seasons[k].number < anime.seasons[k + 1].number

C3_Witness ==
    /\ Returned
    /\ Len(anime.seasons) = 2
    /\ anime.seasons[2].episodes # <<>>
    /\ \E i, j \in 1..Len(page.nodes) :
          /\ i < j
          /\ IsHeader(page.nodes[i]) /\ IsHeader(page.nodes[j])
          /\ extract_season_number(page.nodes[i].text) = anime.seasons[2].number
          /\ extract_season_number(page.nodes[j].text) = anime.seasons[1].number

ArcIds(arc) == {arc.episodes[j].id : j \in 1..Len(arc.episodes)}

\* C4: within a Season S, every episode of an arc is an episode of S, no
\* episode parsed from one link is in two arcs of S, and the arc names are
\* pairwise distinct.
C4_ArcsSubPartition ==
    Returned =>
        \A k \in 1..Len(anime.seasons) :
            LET S == anime.seasons[k]
            IN  /\ \A a \in 1..Len(S.arcs) :
                      ArcIds(S.arcs[a]) \subseteq
                          {S.episodes[j].id : j \in 1..Len(S.episodes)}
                /\ \A a, b \in 1..Len(S.arcs) :
                      a # b => /\ ArcIds(S.arcs[a]) \cap ArcIds(S.arcs[b]) = {}
                               /\ S.arcs[a].name # S.arcs[b].name

C4_Witness ==
    /\ Returned
    /\ \E k \in 1..Len(anime.seasons) :
          /\ Len(anime.seasons[k].arcs) = 2
          /\ \A a \in 1..2 : anime.seasons[k].arcs[a].episodes # <<>>

\* the part pattern "chast N" / "part N" of REGEX_PART_HEADER, case ignored
MatchesPartPattern(text) ==
    \E i \in 1..(Len(text) - 1) :
        /\ Lower(text[i]).w \in {"chast", "part"}
        /\ IsNum(text[i + 1])

Classified == phase \notin {"idle", "new"}

\* C11: a heading whose text or title attribute matches the part pattern is
\* an arc candidate and not a season header, whatever its class markers and
\* whatever stands around it.
C11_PartHeaderIsArcCandidate ==
    Classified =>
        \A i \in 1..Len(page.nodes) :
            (/\ IsHeader(page.nodes[i])
             /\ \/ MatchesPartPattern(page.nodes[i].text)
                \/ MatchesPartPattern(page.nodes[i].title))
            => /\ \E k \in 1..Len(classified.arc_headers_candidates) :
                     classified.arc_headers_candidates[k] = i
               /\ \A k \in 1..Len(classified.season_headers) :
                     classified.season_headers[k] # i

\* a bold part heading that is followed by an episode link, on a page that
\* also has a season heading
C11_Witness ==
    /\ Classified
    /\ classified.season_headers # <<>>
    /\ \E i \in 1..Len(page.nodes) :
          /\ IsHeader(page.nodes[i])
          /\ page.nodes[i].bold
          /\ MatchesPartPattern(page.nodes[i].text)
          /\ FindNextEpisodeLink(page.nodes, i) # 0

\* the positions of the episode links of the page
LinkPositions == {l \in 1..Len(page.nodes) : IsLink(page.nodes[l])}

\* the numbers of the seasons of the returned Anime
KnownSeasons == {anime.seasons[k].number : k \in 1..Len(anime.seasons)}

\* the episodes of the flat list that were parsed from the link at l
FlatFrom(l) == {i \in 1..Len(anime.episodes) : anime.episodes[i].id = l}

\* the seasons (positions) whose list holds an episode parsed from the link at l
SeasonsFrom(l) ==
    {k \in 1..Len(anime.seasons) :
        \E j \in 1..Len(anime.seasons[k].episodes) :
            anime.seasons[k].episodes[j].id = l}

\* C13: an episode link whose title text is empty still yields an Episode,
\* with the empty string as title; the link is not dropped.
C13_EmptyTitleLinkKept ==
    Returned =>
        \A l \in LinkPositions :
            (/\ page.nodes[l].title = ""
             /\ page.nodes[l].ep >= 1
             /\ ~ResolveSeason(page.nodes[l].season, KnownSeasons).drop)
            => \E i \in FlatFrom(l) : anime.episodes[i].title = ""

\* every Episode object of the returned Anime: flat list, seasons, arcs
AllEpisodes ==
    Range(anime.episodes)
        \cup UNION {Range(anime.seasons[k].episodes) : k \in 1..Len(anime.seasons)}
        \cup UNION {UNION {Range(anime.seasons[k].arcs[a].episodes) :
                               a \in 1..Len(anime.seasons[k].arcs)} :
                        k \in 1..Len(anime.seasons)}

\* the string base \o sep \o href is an absolute URL
IsAbsolute(url) == url.base # "" \/ url.href.form = "absolute"

\* C14: every Episode of a returned Anime has a number >= 1 and a non-empty
\* absolute URL; a link that would violate this yields no Episode.
C14_EpisodesWellFormed ==
    Returned =>
        \A e \in AllEpisodes : e.number >= 1 /\ IsAbsolute(e.url)

\* C16: when no heading is classified as a season, the returned Anime has no
\* season and a flat list with one episode per episode link, none of which
\* carries a season number.
C16_FlatWhenNoSeasonHeader ==
    (Returned /\ classified.season_headers = <<>>) =>
        /\ anime.seasons = <<>>
        /\ Len(anime.episodes) = Cardinality(LinkPositions)
        /\ \A i \in 1..Len(anime.episodes) : anime.episodes[i].season_number = None

\* the arc_info entries of season S whose header stands before position l
ArcsBefore(S, l) ==
    {a \in 1..Len(arcs_info) : arcs_info[a].season = S /\ arcs_info[a].header < l}

\* of those, the one whose header is nearest to l
NearestArcBefore(S, l) ==
    CHOOSE a \in ArcsBefore(S, l) :
        \A b \in ArcsBefore(S, l) : arcs_info[b].header <= arcs_info[a].header

\* the names of the arcs of the season at k that hold an episode parsed from l
ArcNamesFrom(k, l) ==
    {anime.seasons[k].arcs[a].name : a \in
        {b \in 1..Len(anime.seasons[k].arcs) :
            \E j \in 1..Len(anime.seasons[k].arcs[b].episodes) :
                anime.seasons[k].arcs[b].episodes[j].id = l}}

\* C17: an episode of season S is assigned to the arc of S whose header is
\* the nearest one before the episode link among all arc headers of S before
\* it, and to no arc when no arc header of S stands before the link.
C17_NearestPrecedingArc ==
    Returned =>
        \A k \in 1..Len(anime.seasons) :
            \A j \in 1..Len(anime.seasons[k].episodes) :
                LET l == anime.seasons[k].episodes[j].id
                    S == anime.seasons[k].number
                IN  ArcNamesFrom(k, l) =
                        IF ArcsBefore(S, l) = {} THEN {}
                        ELSE {arcs_info[NearestArcBefore(S, l)].name}

\* the link at l can be made an Episode: models/episode.py accepts its fields
WellFormedLink(l) == page.nodes[l].ep >= 1 /\ page.nodes[l].title # ""

\* C18: when seasons are known, a link without a season segment goes to the
\* sole season if exactly one is known and is dropped if several are known;
\* a link whose URL season is not a known season is dropped from the flat
\* list and from every season.
C18_SeasonResolution ==
    (Returned /\ anime.seasons # <<>>) =>
        \A l \in LinkPositions :
            LET url_season == page.nodes[l].season
            IN  /\ (url_season = None /\ Len(anime.seasons) = 1) =>
                      /\ WellFormedLink(l) => FlatFrom(l) # {}
                      /\ \A i \in FlatFrom(l) :
                            anime.episodes[i].season_number = anime.seasons[1].number
                      /\ FlatFrom(l) # {} => SeasonsFrom(l) = {1}
                /\ (url_season = None /\ Len(anime.seasons) > 1) =>
                      FlatFrom(l) = {} /\ SeasonsFrom(l) = {}
                /\ (url_season # None /\ url_season \notin KnownSeasons) =>
                      FlatFrom(l) = {} /\ SeasonsFrom(l) = {}

\* two seasons are known and the page has a link without a season segment
C18_Witness ==
    /\ Returned
    /\ Len(anime.seasons) = 2
    /\ \E l \in LinkPositions : page.nodes[l].season = None /\ WellFormedLink(l)

\* the bounds _parse_rating hands to Rating, read from the markup
MarkupBest ==
    IF page.rating.best.present THEN ParseNumber(page.rating.best.text)
    ELSE [ok |-> TRUE, v |-> DEFAULT_BEST]
MarkupWorst ==
    IF page.rating.worst.present /\ page.rating.worst.text # <<>>
    THEN ParseNumber(page.rating.worst.text)
    ELSE [ok |-> TRUE, v |-> DEFAULT_WORST]

\* the rating value is present, and is not a number or lies outside the bounds
RatingValueBad ==
    /\ page.rating.value.present
    /\ \/ ~ParseNumber(page.rating.value.text).ok
       \/ /\ MarkupBest.ok /\ MarkupWorst.ok
          /\ ~(/\ MarkupWorst.v <= ParseNumber(page.rating.value.text).v
               /\ ParseNumber(page.rating.value.text).v <= MarkupBest.v)

RatingValueMissing == ~page.rating.value.present

\* the outcome of the parse of a page without headings whose rating markup
\* has been removed
ParsedWithoutRatingMarkup ==
    Anime(parse_title(page.h1),
          parse_rating(NoRatingMarkup),
          StableSort(parse_without_seasons(page.nodes, FindAllEpisodeLinks(page.nodes),
                                           Len(FindAllEpisodeLinks(page.nodes))),
                     FlatKey(parse_without_seasons(page.nodes,
                                           FindAllEpisodeLinks(page.nodes),
                                           Len(FindAllEpisodeLinks(page.nodes))))),
          <<>>)

\* C21: when the rating value is present but not a number, or outside
\* worst <= value <= best, or when it is missing, the Anime has no rating (and
\* no zero rating), and the outcome of the parse is the outcome for the same
\* page without the rating markup: it succeeds when that one succeeds, with
\* the same title, episodes and seasons.
C21_BadRatingIsAbsent ==
    (phase = "parsed" /\ (RatingValueBad \/ RatingValueMissing)) =>
        /\ anime.rating = NoRating
        /\ SelectHeaders(page.nodes) = <<>> => anime = ParsedWithoutRatingMarkup

C21_Witness ==
    /\ phase = "parsed"
    /\ anime.status = "ok"
    /\ page.rating.value = Elem(<<N(11)>>)
    /\ page.rating.best = Absent
    /\ page.rating.count = Elem(<<N(3)>>)
    /\ anime.rating = NoRating
    /\ Len(anime.episodes) = 1

\* the parse took the branch _parse_with_seasons and _build_seasons_info has run
SeasonBranch ==
    /\ phase \in {"links", "assemble", "parsed"}
    /\ Len(classified.season_headers) > 0
    /\ page.watch

\* the patterns, in their order, whose leftmost match captures a number in [1,20]
PatternsInRange(text) ==
    {p \in 1..4 : /\ PatternSearch(p, text) # 0
                  /\ InSeasonRange(PatternGroup(p, text, PatternSearch(p, text)))}

\* the season number of a heading text: that of the first such pattern, None
\* when there is no such pattern
NumberByFirstPattern(text) ==
    IF PatternsInRange(text) = {} THEN None
    ELSE LET p == CHOOSE q \in PatternsInRange(text) :
                      \A r \in PatternsInRange(text) : q <= r
         IN  PatternGroup(p, text, PatternSearch(p, text))

SeasonHeaderNumbers ==
    {NumberByFirstPattern(page.nodes[classified.season_headers[k]].text) :
        k \in 1..Len(classified.season_headers)} \ {None}

PlainHeading(i) ==
    /\ IsHeader(page.nodes[i])
    /\ ~MatchesPartPattern(page.nodes[i].text)
    /\ ~MatchesPartPattern(page.nodes[i].title)
    /\ ~page.nodes[i].bold

IsSeasonAt(i) ==
    \E k \in 1..Len(classified.season_headers) : classified.season_headers[k] = i

IsArcCandidateAt(i) ==
    \E k \in 1..Len(classified.arc_headers_candidates) :
        classified.arc_headers_candidates[k] = i

\* C23: a heading with no part pattern and without the bold-season marker is
\* a season exactly when its text holds digits and an episode link follows it
\* in the document; every other such heading is an arc candidate.
C23_PlainHeadingSeasonIffDigitsAndLink ==
    Classified =>
        \A i \in 1..Len(page.nodes) :
            PlainHeading(i) =>
                /\ IsSeasonAt(i) <=> (/\ HasNumbers(page.nodes[i].text)
                                      /\ \E j \in (i + 1)..Len(page.nodes) :
                                             IsLink(page.nodes[j]))
                /\ IsArcCandidateAt(i) <=> ~IsSeasonAt(i)

\* the season that owns the heading at h: the season number in the URL of
\* the nearest episode link after h, None when no link follows, when its URL
\* has no season segment or when the number is not a known season
OwnerOf(h) ==
    LET after == {l \in LinkPositions : l > h}
        nearest == CHOOSE l \in after : \A m \in after : l <= m
    IN  IF after = {} THEN None
        ELSE IF page.nodes[nearest].season = None THEN None
        ELSE IF page.nodes[nearest].season \notin DOMAIN seasons_dict THEN None
        ELSE page.nodes[nearest].season

ArcCandidates == {i \in 1..Len(page.nodes) : IsArcCandidateAt(i)}

\* C24: an arc-candidate header belongs to the season whose number is in the
\* URL of the nearest episode link after it, and is discarded when there is
\* no such link, no season segment in its URL or no such known season: the
\* arcs the parser keeps are the owned candidates, each with its owner, and an
\* arc of a season of the result bears the name of a candidate that season owns.
C24_ArcOwnedByNextLinkSeason ==
    SeasonBranch =>
        /\ {<<arcs_info[k].header, arcs_info[k].season>> : k \in 1..Len(arcs_info)}
               = {<<h, OwnerOf(h)>> : h \in {c \in ArcCandidates : OwnerOf(c) # None}}
        /\ Returned =>
              \A k \in 1..Len(anime.seasons) :
                  \A a \in 1..Len(anime.seasons[k].arcs) :
                      \E h \in ArcCandidates :
                          /\ page.nodes[h].text = anime.seasons[k].arcs[a].name
                          /\ OwnerOf(h) = anime.seasons[k].number

\* one candidate is owned and has an episode, another one is discarded
C24_Witness ==
    /\ SeasonBranch /\ Returned
    /\ \E h \in ArcCandidates : OwnerOf(h) = None
    /\ \E h \in ArcCandidates :
          /\ OwnerOf(h) # None
          /\ \E k \in 1..Len(anime.seasons) :
                /\ anime.seasons[k].number = OwnerOf(h)
                /\ \E a \in 1..Len(anime.seasons[k].arcs) :
                      /\ anime.seasons[k].arcs[a].name = page.nodes[h].text
                      /\ Len(anime.seasons[k].arcs[a].episodes) > 0

\* the links whose episode _assign_episode_to_arc gives to the arc_info at a
LinksAssignedTo(a) ==
    {l \in LinkPositions :
        LET parsed == parse_episode_link(page.nodes, l, DOMAIN seasons_dict)
        IN  /\ parsed # <<>>
            /\ parsed[1].season_number = arcs_info[a].season
            /\ LET current == CurrentArcInfo(page.nodes, l, arcs_info,
                                             arcs_info[a].season)
               IN  /\ current # <<>>
                   /\ current[1].header = arcs_info[a].header}

\* the numbers extract_season_number reads from the season headers
NumbersOfSeasonHeaders ==
    {extract_season_number(page.nodes[classified.season_headers[k]].text) :
        k \in 1..Len(classified.season_headers)} \ {None}

----------------------------------------------------------------------------
(* Properties of VideoDownloader.download *)

EndedWithError == tpc = "raised" /\ tout.kind \in {"NetworkError", "DownloadError"}

\* C25 as stated: whenever download ends with NetworkError or DownloadError,
\* no file stands at output_path afterwards, wherever the failure occurred.
C25_NoFileAfterError == EndedWithError => tfile = "none"

\* C25 as amended: whenever download ends with NetworkError or DownloadError,
\* no file stands at output_path afterwards unless os.remove itself failed;
\* a file that is there (partially written, or older than the call) has been
\* removed whenever the removal succeeded, wherever the failure occurred.
C25_NoFileAfterErrorUnlessRemoveFails ==
    /\ tpc = "raised" => tout.kind \in {"NetworkError", "DownloadError"}
    /\ EndedWithError => (tfile # "none" <=> tremove = "failed")

\* the write of the second chunk fails and the partial file is removed
C25_Witness ==
    /\ EndedWithError
    /\ tout.at = "write"
    /\ twritten = 1
    /\ tremove = "removed"
    /\ tfile = "none"

----------------------------------------------------------------------------
(* Properties of download_episode *)

\* the page could not be fetched, or no probe finds a URL on it
NoUrlObtainable ==
    \/ ~ehtml.fetched
    \/ \A k \in 1..3 : DOMAIN Probe(k, ehtml) = {}

\* the available quality with the greatest numeric value
GreatestQuality ==
    CHOOSE k \in DOMAIN eurls : \A j \in DOMAIN eurls : KeyValue(j) <= KeyValue(k)

ExpectedUrl ==
    IF equality \in DOMAIN eurls THEN eurls[equality] ELSE eurls[GreatestQuality]

\* C27: download_episode downloads the URL of the requested quality when the
\* extracted mapping has it, and otherwise the URL of the available quality
\* with the greatest numeric value; when no video URL can be obtained (the
\* page fetch fails or the extraction finds nothing) it raises
\* VideoExtractionError and no file has been created.
C27_QualityChoiceAndExtractionError ==
    /\ epc \in {"download", "done"} => echosen.url = ExpectedUrl
    /\ epc = "done" => /\ echosen.path \in DOMAIN efiles
                       /\ efiles[echosen.path] = ExpectedUrl
    /\ (NoUrlObtainable /\ epc \notin {"idle", "start", "urls"}) =>
          /\ epc = "raised"
          /\ eout.kind = "VideoExtractionError"
          /\ DOMAIN efiles = {}

\* the requested quality is missing and the greatest of two is downloaded
C27_Witness ==
    /\ epc = "done"
    /\ equality \notin DOMAIN eurls
    /\ Cardinality(DOMAIN eurls) >= 2
    /\ efiles[echosen.path] = eurls[GreatestQuality]

----------------------------------------------------------------------------
(* Properties of login *)

\* C28: after any sequence of login calls on one client, is_authenticated is
\* True if and only if the most recent call returned True: it is False before
\* the first call, after a call that returned False and after a call that
\* raised NetworkError, also when an earlier call had succeeded.
C28_AuthenticatedIffLastLoginTrue ==
    is_authenticated <=> (/\ lresults # <<>>
                          /\ lresults[Len(lresults)] = "True")

\* a successful login, then one that raises NetworkError
C28_Witness ==
    /\ Len(lresults) = 2
    /\ lresults[1] = "True"
    /\ lresults[2] = "NetworkError"
    /\ ~is_authenticated

----------------------------------------------------------------------------
(* Properties of clean_description *)

\* a token that the stop-word rule names: a word of SEO_WORDS in any case
IsStopWord(word) == lower(word) \in SEO_WORDS

NoStopWord(words) == \A i \in 1..Len(words) : ~IsStopWord(words[i])

NoEqualNeighbours(words) == \A i \in 1..(Len(words) - 1) : words[i] # words[i + 1]

\* C30: clean_description is idempotent, clean_description(clean_description(d))
\* = clean_description(d) for every description d; the result holds no SEO
\* stop-word token and no two equal adjacent tokens, also when the two equal
\* tokens were separated in the input by removed stop-words only.
C30_CleanIdempotentNoStopWordNoRepeat ==
    /\ cpc \in {"cleaned", "recleaned"} =>
          /\ NoStopWord(split(cleaned))
          /\ NoEqualNeighbours(split(cleaned))
    /\ cpc = "recleaned" => recleaned = cleaned

\* two equal tokens with nothing but a stop-word between them, cleaned twice
C30_Witness ==
    /\ cpc = "recleaned"
    /\ \E i \in 1..(Len(split(description)) - 2) :
          /\ split(description)[i] = split(description)[i + 2]
          /\ ~IsStopWord(split(description)[i])
          /\ IsStopWord(split(description)[i + 1])
    /\ cleaned # description
    /\ cleaned # <<>>

----------------------------------------------------------------------------
(* Properties of Rating *)

EffectiveBest == IF rargs.best = None THEN DEFAULT_BEST ELSE rargs.best
EffectiveWorst == IF rargs.worst = None THEN DEFAULT_WORST ELSE rargs.worst

\* C5: with a non-negative count, Rating construction succeeds if and only if
\* worst <= value <= best; when it fails no Rating object is produced.
C5_RatingIffWithinBounds ==
    (rphase = "built" /\ rargs.count >= 0) =>
        /\ rating.ok <=> (EffectiveWorst <= rargs.value /\ rargs.value <= EffectiveBest)
        /\ rating.ok => /\ rating.value = rargs.value
                        /\ rating.best = EffectiveBest
                        /\ rating.worst = EffectiveWorst
        /\ ~rating.ok => rating = RatingError

C5_Witness ==
    /\ rphase = "built"
    /\ rating.ok
    /\ rating.value = rating.worst
    /\ rating.worst < rating.best

----------------------------------------------------------------------------
(* Properties of the video extractor *)

\* what probe k contributed: nothing when it raised
Contribution(k) == IF k \in vraised THEN << >> ELSE Probe(k, vpage)

ProbeUnion == DOMAIN Contribution(1) \cup DOMAIN Contribution(2) \cup DOMAIN Contribution(3)

\* the URL of the latest probe, in the order of `methods`, that yields key
LatestUrl(key) ==
    IF key \in DOMAIN Contribution(3) THEN Contribution(3)[key]
    ELSE IF key \in DOMAIN Contribution(2) THEN Contribution(2)[key]
    ELSE Contribution(1)[key]

\* C7: extract_video_urls fails with VideoExtractionError if and only if the
\* union of the three probes' results is empty; otherwise it returns that
\* union, and a probe that raised does not keep the others from contributing.
C7_FailsIffUnionEmpty ==
    vpc = 5 =>
        /\ vout.kind = "VideoExtractionError" <=> ProbeUnion = {}
        /\ ProbeUnion # {} => vout.kind = "ok" /\ DOMAIN vout.urls = ProbeUnion

\* C8: in the returned mapping a quality key found by several probes holds
\* the URL of the latest of them in the order source tags, video tag, data
\* attributes; a key found by one probe holds that probe's URL.
C8_LastProbeWins ==
    (vpc = 5 /\ vout.kind = "ok") =>
        /\ DOMAIN vout.urls = ProbeUnion
        /\ \A key \in DOMAIN vout.urls : vout.urls[key] = LatestUrl(key)

C8_Witness ==
    /\ vpc = 5 /\ vout.kind = "ok" /\ vraised = {}
    /\ \E key \in DOMAIN Contribution(1) \cap DOMAIN Contribution(3) :
          /\ Contribution(1)[key] # Contribution(3)[key]
          /\ vout.urls[key] = Contribution(3)[key]
    /\ \E key \in DOMAIN vout.urls :
          key \notin DOMAIN Contribution(1) \cup DOMAIN Contribution(2)

\* C9: no URL of the returned mapping holds the placeholder filename
\* pixel.png, whichever probe found it.
C9_NoPlaceholderUrl ==
    (vpc = 5 /\ vout.kind = "ok") =>
        \A key \in DOMAIN vout.urls : ~Contains(vout.urls[key], PIXEL_PNG)

\* C10: every key of the returned mapping is one of "1080", "720", "480",
\* "360".
C10_KeysAreKnownQualities ==
    (vpc = 5 /\ vout.kind = "ok") => DOMAIN vout.urls \subseteq Range(VIDEO_QUALITIES)

----------------------------------------------------------------------------
(* Properties of the batch download *)

\* C15: in one batch download into an output directory, any two distinct
\* episodes of the batch are written to different file paths.
C15_DistinctOutputPaths ==
    (dphase = "returned" /\ ddir # NoDir) =>
        \A a, b \in 1..Len(dlog) :
            dlog[a].idx # dlog[b].idx => dlog[a].path # dlog[b].path

\* the turns of the loop that ended with a returned file path
ReturnedTurns == SelectSeq(dtried, LAMBDA t : t.outcome = "returned")

----------------------------------------------------------------------------
(* Properties of the info block *)

\* the 4-digit tokens of a text that lie in [MIN_YEAR, MAX_YEAR]
YearTokens(text) ==
    {text[i].n : i \in {j \in 1..Len(text) :
                            /\ IsNum(text[j]) /\ Digits(text[j].n) = 4
                            /\ MIN_YEAR <= text[j].n /\ text[j].n <= MAX_YEAR}}

\* the catalog anchors of the block
CatalogAnchors ==
    {k \in 1..Len(iblock.children) : IsCatalogLink(iblock.children[k])}

\* C12: year extraction returns every 4-digit token in [1900,2100] of the
\* texts it reads ("2019-2020" yields 2019 and 2020), and no year when no
\* text holds such a token.
C12_EveryYearTokenExtracted ==
    (iphase = "done" /\ iblock.present) =>
        /\ \A k \in CatalogAnchors :
              YearTokens(extract_text_from_link(iblock.children[k]))
                  \subseteq Range(iout.years)
        /\ (\A k \in 1..Len(iblock.children) :
                YearTokens(iblock.children[k].itext \o iblock.children[k].text) = {})
              => iout.years = <<>>

\* the sections that have catalog anchors none of which is year-like
Qualifying ==
    {k \in 1..Len(isections) :
        /\ SectionLinks(isections[k]) # <<>>
        /\ ~is_year_section(SectionLinks(isections[k]))}

\* the n-th of them in document order, 0 when there are fewer
RECURSIVE NthQualifying(_)
NthQualifying(n) ==
    LET from == IF n = 1 THEN 0 ELSE NthQualifying(n - 1)
        later == {k \in Qualifying : k > from}
    IN  IF (n > 1 /\ from = 0) \/ later = {} THEN 0
        ELSE CHOOSE k \in later : \A j \in later : k <= j

\* the anchor texts that a qualifying section supplies
Supplied(k) ==
    IF k = 0 THEN <<>>
    ELSE AppendTexts(<<>>, SectionLinks(isections[k]), Len(SectionLinks(isections[k])))

\* C19: sections without catalog anchors or with year-like anchors are not
\* counted: the first qualifying section supplies the genres, the second
\* the themes, wherever the skipped sections stand.
C19_SkippedSectionsNotCounted ==
    (iphase = "done" /\ iblock.present) =>
        /\ iout.genres = Supplied(NthQualifying(1))
        /\ iout.themes = Supplied(NthQualifying(2))

\* the year that the anchor scan of _parse_years reads from the child at k
ScannedYear(k) == extract_year_from_text(extract_text_from_link(iblock.children[k]))

\* C20: the years list of the Anime is strictly ascending, its primary year
\* is the minimum of the list, or absent when the list is empty, and the
\* label-phrase fallback is consulted only when the anchor scan found no year.
C20_YearsSortedPrimaryIsMin ==
    /\ iphase = "done" =>
          /\ \A k \in 1..(Len(iout.years) - 1) : iout.years[k] < iout.years[k + 1]
          /\ iout.years # <<>> =>
                /\ iout.year \in Range(iout.years)
                /\ \A y \in Range(iout.years) : iout.year <= y
          /\ iout.years = <<>> => iout.year = None
    /\ iphase = "fallen" => \A k \in CatalogAnchors : ScannedYear(k) = None

\* two anchors in descending order of their years, and a repeated year
C20_Witness ==
    /\ iphase = "done"
    /\ Len(iout.years) = 2
    /\ \E j, k \in CatalogAnchors :
          j < k /\ ScannedYear(j) # None /\ ScannedYear(k) # None
                /\ ScannedYear(j) > ScannedYear(k)
    /\ \E j, k \in CatalogAnchors : j < k /\ ScannedYear(j) = ScannedYear(k)

====
